---- MODULE Spec2Model ----
(***************************************************************************)
(* Model of gotalk-dictation's speech core.                                *)
(*                                                                         *)
(* Part 2 (specification SpecFlac): flac.go, the FLAC encoder.            *)
(*                                                                         *)
(* Part 1: Recognizer.bufferWithVAD (internal/speech), the voice-activity  *)
(* detector that reads PCM chunks from a channel until the phrase ends,    *)
(* the channel closes or the context is done.                              *)
(*                                                                         *)
(* Numbers.  calcRMS, calibSum and threshold are float64 in the source.    *)
(* The model keeps them in fixed point, in units of 1/Scale.  The chunk    *)
(* alphabet holds chunks whose RMS is an integer and the sensitivities are *)
(* multiples of 1/2, so every float64 operation of the source (sum of four *)
(* integers, division by 4, product with k/2) is exact and equals the      *)
(* fixed-point value.                                                      *)
(*                                                                         *)
(* History.  Each chunk carries its arrival number seq beside its bytes    *)
(* pcm; nRecv, out and onsetAt record what bufferWithVAD received and      *)
(* appended.  They are written by the actions and read only by the         *)
(* properties.                                                             *)
(***************************************************************************)
EXTENDS Integers, Sequences, FiniteSets, TLC

\* ------------------------------------------------------------------ bounds
\* Chunks the recorder sends in one run.
MaxChunks == 10
\* Capacity of the chunk channel in the model (16 in Recorder.Start).
ChanCap == 1

\* --------------------------------------------------------------- constants
calibChunks == 4
minSpeechChunks == 2
preRollLen == 4
\* The threshold floor, "if threshold < 150".
thresholdFloor == 150
\* Defaults of Recognizer.silenceChunks and Recognizer.sensitivity (2.5,
\* kept in halves).
defaultSilenceChunks == 12
defaultSensitivityX2 == 5
\* Fixed-point denominator of the float64 quantities.
Scale == 8

\* Phases of bufferWithVAD ("type phase int").
calibrating == 0
waitingSpeech == 1
inSpeech == 2

\* ----------------------------------------------------------------- inputs
\* PCM chunks (S16LE bytes) the recorder may deliver: one sample of 5, one
\* sample of 150 followed by an odd trailing byte, two samples of 1000.
ChunkQuiet == <<5, 0>>
ChunkFloor == <<150, 0, 7>>
ChunkLoud == <<232, 3, 232, 3>>
ChunkAlphabet == {ChunkQuiet, ChunkFloor, ChunkLoud}

\* Recognizer.SilenceChunks values a run is configured with.
SilenceChunksSet == {2, 3}
\* Recognizer.Sensitivity values, in halves: unset (0, giving 2.5) and 0.5.
SensitivityX2Set == {0, 1}

\* Errors ctx.Err() gives once the context is done.
CtxErrors == {"Canceled", "DeadlineExceeded"}

VARIABLES
    SilenceChunks,  \* Recognizer.SilenceChunks
    SensitivityX2,  \* Recognizer.Sensitivity, in halves
    audioCh,        \* chunks buffered in the channel, oldest first
    chClosed,       \* the sender closed the channel
    nSent,          \* chunks sent so far
    ctxErr,         \* ctx.Err(): "nil" until the context is done
    pc,             \* "running" | "returned"
    retErr,         \* the error bufferWithVAD returned
    retPath,        \* which return statement was taken
    cur, calibCount, calibSum, threshold, speechCount, silCount,
    preRoll,        \* sequence of chunks, each [seq, pcm]
    result,         \* sequence of bytes
    nRecv,          \* history: number of chunks received
    out,            \* history: the chunks appended to result, in order
    onsetAt,        \* history: arrival number of the chunk that triggered onset
    \* Part 2, flac.go
    fn,             \* the function of flac.go that is called, "none" in part 1
    flacPcm,        \* argument pcm of pcmToFLACNative
    flacOut,        \* bytes.Buffer out of pcmToFLACNative
    frameNum,       \* loop variable of pcmToFLACNative
    flacPc,         \* "idle" | "start" | "frames" | "done" | "panic"
    frames,         \* history: the frames written, each [num, src, bytes]
    uv,             \* argument of flacUTF8Int
    data,           \* argument of flacCRC8 and flacCRC16
    ret,            \* what flacUTF8Int or flacCRC8/flacCRC16 returned
    \* Part 3, Manager.eventLoop (internal/hotkey)
    hkMode,         \* "none" | "toggle" | "ptt" (isPTT)
    keyHeld,        \* the key is physically down
    xEvents,        \* X events delivered and not yet read by WaitForEvent
    hkStopped,      \* stopCh is closed and the connection shut
    pressed,        \* var pressed bool
    pendingRelease, \* var pendingRelease atomic.Bool
    releaseGen,     \* var releaseGen atomic.Uint64
    timers,         \* the release goroutines alive, each [gen, wait, stage]
    onPressCalls,   \* history: "go onPress()" executed
    onReleaseCalls, \* history: "rel()" executed
    physPresses,    \* history: physical presses of the key
    physReleases,   \* history: physical releases of the key
    nKeyEvents,     \* history: physical presses, releases and repeats
    \* Part 4, app.toggleDictation / runDictation and the shared Recorder
    isListening,    \* app.isListening
    cancelDicta,    \* app.cancelDicta: the session it cancels, 0 for nil
    dict,           \* the runDictation goroutines, in the order of their start
    rCancel,        \* Recorder.cancel: the recording it cancels, 0 for nil
    pendingToggles, \* toggleDictation goroutines that have not read isListening
    pendingToggleStops, \* toggleDictation goroutines about to stopDictation
    toggleLog,      \* history: what each toggleDictation saw and did
    pttHeld,        \* the push-to-talk key is down
    pendingPttStops,\* release callbacks (recorder.Stop) started, not yet run
    nAppPresses,    \* history: presses of either hotkey
    \* Part 5, Recorder.Start and its reader goroutine (internal/audio)
    rdPc,           \* "none" | "failed" | "read" | "send" | "wait" | "returned"
    rdChunk,        \* the chunk the reader holds, 0 for none
    arecord,        \* "none" | "running" | "dead"
    pipe,           \* chunks arecord wrote that stdout.Read has not returned
    nProduced,      \* history: chunks arecord wrote
    nRead,          \* history: chunks stdout.Read returned
    recCh,          \* the channel ch: chunk numbers, oldest first
    recClosed,      \* close(ch) was executed
    closeCount,     \* history: executions of close(ch)
    recStopped,     \* Stop() was called after Start
    recParentDone,  \* the context passed to Start is done
    received,       \* history: the chunks the consumer received, in order
    seenClosed,     \* the consumer's receive reported the close
    \* Part 6, Typer and processPunctuation (internal/typing)
    EnablePunctuation, \* Typer.EnablePunctuation
    lastRuneCount,  \* Typer.lastRuneCount
    x11,            \* Typer.x after once.Do: "unset" | "ok" | "nil"
    keymap,         \* the keysyms of the keyboard mapping
    typErr,         \* what the last Type or Undo returned
    lastOp,         \* history: "none" | "type" | "undo"
    inserted,       \* history: characters the last Type put into the target
    sentBS,         \* history: BackSpace taps the last Undo sent
    nTyperOps,      \* history: calls of Type and Undo
    ppVer,          \* the processPunctuation called alone, "none" if none
    ppIn,           \* its argument
    ppOut,          \* its result
    \* Part 7, config.Load (internal/config)
    cfgFile,        \* the file config.json: [kind, silence_chunks, ...]
    loadPc,         \* "idle" | "returned"
    loadCfg,        \* the *Config Load returned, if loadNil is FALSE
    loadNil,        \* Load returned a nil *Config
    loadErr,        \* the error Load returned: "nil" | "err"
    \* Part 8, calcRMS called alone
    rmsArg,         \* [pcm, v, n, const]: the chunk and how it was made
    rmsPc,          \* "idle" | "start" | "done"
    rmsRet,         \* what calcRMS returned, in units of 1/Scale
    \* Part 9, one session after the other: runDictation, Recognize on the
    \* free-API path and the tray popup (isListening and cancelDicta are
    \* those of part 4)
    nSessions,      \* history: calls of runDictation that set isListening
    runPc,          \* where runDictation is, "idle" between sessions
    sesCtx,         \* the session's context: "none" | "live" | "canceled" | "deadline"
    SkipVAD,        \* Recognizer.SkipVAD of the session
    recPc,          \* where Recognize is, "none" outside it
    pcmEmpty,       \* len(pcm) == 0 in recognizeFree
    recText,        \* the transcript: "" or "hello"
    recErr,         \* the error: "nil" | "ctx" | "api"
    onProcessingCalls, \* history: calls of OnProcessing in this session
    apiCalls,       \* history: calls of postFreeAPI in this session
    doneAtReturn,   \* history: the context was done when Recognize returned
    typeCalls,      \* history: calls of typer.Type in this session
    exits,          \* history: the return statement each session took
    popState,       \* X11Popup.state
    popMapped,      \* the popup window is mapped
    hideTimers      \* sessions whose delayed SetIdle is still asleep

flacVars == <<fn, flacPcm, flacOut, frameNum, flacPc, frames, uv, data, ret>>

hkVars == <<hkMode, keyHeld, xEvents, hkStopped, pressed, pendingRelease,
            releaseGen, timers, onPressCalls, onReleaseCalls, physPresses,
            physReleases, nKeyEvents>>

\* The variables of the parts after part 2.
appVars == <<isListening, cancelDicta, dict, rCancel, pendingToggles,
             pendingToggleStops, toggleLog, pttHeld, pendingPttStops,
             nAppPresses>>
recVars == <<rdPc, rdChunk, arecord, pipe, nProduced, nRead, recCh, recClosed,
             closeCount, recStopped, recParentDone, received, seenClosed>>
typVars == <<EnablePunctuation, lastRuneCount, x11, keymap, typErr, lastOp,
             inserted, sentBS, nTyperOps, ppVer, ppIn, ppOut>>
loadVars == <<cfgFile, loadPc, loadCfg, loadNil, loadErr>>
rmsVars == <<rmsArg, rmsPc, rmsRet>>
sesVars == <<nSessions, runPc, sesCtx, SkipVAD, recPc, pcmEmpty, recText,
             recErr, onProcessingCalls, apiCalls, doneAtReturn, typeCalls,
             exits, popState, popMapped, hideTimers>>
restVars == <<loadVars, rmsVars, sesVars>>
laterVars == <<hkVars, appVars, recVars, typVars, restVars>>

vars == <<SilenceChunks, SensitivityX2, audioCh, chClosed, nSent, ctxErr, pc,
          retErr, retPath, cur, calibCount, calibSum, threshold, speechCount,
          silCount, preRoll, result, nRecv, out, onsetAt, flacVars, laterVars>>

\* ---------------------------------------------------------------- helpers
RECURSIVE Flatten(_)
Flatten(chunks) ==
    IF chunks = <<>> THEN <<>> ELSE Head(chunks).pcm \o Flatten(Tail(chunks))

RECURSIVE SqrtBetween(_, _, _)
\* Largest r in lo..hi with r*r <= x.
SqrtBetween(x, lo, hi) ==
    IF lo >= hi THEN lo
    ELSE LET mid == (lo + hi + 1) \div 2
         IN  IF mid * mid <= x THEN SqrtBetween(x, mid, hi)
             ELSE SqrtBetween(x, lo, mid - 1)

\* math.Sqrt on an argument whose root is an integer (at most 32768).
Sqrt(x) == SqrtBetween(x, 0, 32768)

\* int16(binary.LittleEndian.Uint16(pcm[i:i+2]))
Int16LE(lo, hi) ==
    LET u == lo + 256 * hi IN IF u >= 32768 THEN u - 65536 ELSE u

RECURSIVE SumSquares(_, _)
\* The loop of calcRMS: for i := 0; i < len(pcm)-1; i += 2.
SumSquares(pcm, i) ==
    IF i >= Len(pcm) THEN 0
    ELSE LET s == Int16LE(pcm[i], pcm[i + 1])
         IN  s * s + SumSquares(pcm, i + 2)

\* calcRMS that divides by the number of bytes.
calcRMS_PerByte(pcm) ==
    IF Len(pcm) \div 2 = 0 THEN 0
    ELSE Scale * Sqrt(SumSquares(pcm, 1) \div Len(pcm))

\* calcRMS, in units of 1/Scale.
calcRMS(pcm) ==
    LET n == Len(pcm) \div 2
    IN  IF n = 0 THEN 0
        ELSE Scale * Sqrt(SumSquares(pcm, 1) \div n)

\* Recognizer.silenceChunks() that keeps a zero.
silenceChunks_ZeroKept ==
    IF SilenceChunks >= 0 THEN SilenceChunks ELSE defaultSilenceChunks

\* Recognizer.silenceChunks()
silenceChunks == IF SilenceChunks > 0 THEN SilenceChunks ELSE defaultSilenceChunks

\* Recognizer.sensitivity(), in halves
sensitivity == IF SensitivityX2 > 0 THEN SensitivityX2 ELSE defaultSensitivityX2

silenceEndChunks == silenceChunks
thresholdMul == sensitivity

\* threshold = ambient * thresholdMul; if threshold < 150 { threshold = 150 },
\* with ambient = calibSum / float64(calibCount); all in units of 1/Scale.
Threshold_NoFloor(sum, count) == ((sum \div count) * thresholdMul) \div 2
Threshold(sum, count) ==
    LET ambient == sum \div count
        t == (ambient * thresholdMul) \div 2
    IN  IF t < thresholdFloor * Scale THEN thresholdFloor * Scale ELSE t

\* rms > threshold
IsLoud_AtOrAbove(rms, thr) == rms >= thr
IsLoud(rms, thr) == rms > thr

\* if calibCount >= calibChunks
CalibrationDone_OneEarly(count) == count >= calibChunks - 1
CalibrationDone(count) == count >= calibChunks

\* if speechCount >= minSpeechChunks
OnsetReached_Single(count) == count >= 1
OnsetReached(count) == count >= minSpeechChunks

\* if silCount >= silenceEndChunks
SilenceEndReached_OneLate(count) == count > silenceEndChunks
SilenceEndReached(count) == count >= silenceEndChunks

\* inSpeech: if rms <= threshold { silCount++ } else { silCount = 0 }
NextSilCount_NoReset(count, loud) == IF loud THEN count ELSE count + 1
NextSilCount(count, loud) == IF loud THEN 0 ELSE count + 1

\* preRoll = append(preRoll, chunk); if len(preRoll) > preRollLen { preRoll = preRoll[1:] }
PushPreRoll_NoTrim(p, chunk) == Append(p, chunk)
PushPreRoll_KeepOldest(p, chunk) ==
    IF Len(p) >= preRollLen THEN p ELSE Append(p, chunk)
PushPreRoll(p, chunk) ==
    LET q == Append(p, chunk)
    IN  IF Len(q) > preRollLen THEN Tail(q) ELSE q

\* The hotkey event loop is not running.
HotkeyIdle ==
    /\ hkMode = "none"
    /\ keyHeld = FALSE
    /\ xEvents = <<>>
    /\ hkStopped = FALSE
    /\ pressed = FALSE
    /\ pendingRelease = FALSE
    /\ releaseGen = 0
    /\ timers = {}
    /\ onPressCalls = 0
    /\ onReleaseCalls = 0
    /\ physPresses = 0
    /\ physReleases = 0
    /\ nKeyEvents = 0

\* The parts after part 2 are not running.
\* Part 4 at rest: no hotkey was pressed yet.
AppIdle ==
    /\ isListening = FALSE
    /\ cancelDicta = 0
    /\ dict = <<>>
    /\ rCancel = 0
    /\ pendingToggles = 0
    /\ pendingToggleStops = 0
    /\ toggleLog = <<>>
    /\ pttHeld = FALSE
    /\ pendingPttStops = 0
    /\ nAppPresses = 0

\* Part 5 at rest: Start was not called.
RecorderIdle ==
    /\ rdPc = "none"
    /\ rdChunk = 0
    /\ arecord = "none"
    /\ pipe = 0
    /\ nProduced = 0
    /\ nRead = 0
    /\ recCh = <<>>
    /\ recClosed = FALSE
    /\ closeCount = 0
    /\ recStopped = FALSE
    /\ recParentDone = FALSE
    /\ received = <<>>
    /\ seenClosed = FALSE

\* Part 6 at rest: a zero Typer, nothing called.
TyperIdle ==
    /\ EnablePunctuation = FALSE
    /\ lastRuneCount = 0
    /\ x11 = "unset"
    /\ keymap = {}
    /\ typErr = "nil"
    /\ lastOp = "none"
    /\ inserted = 0
    /\ sentBS = 0
    /\ nTyperOps = 0
    /\ ppVer = "none"
    /\ ppIn = <<>>
    /\ ppOut = <<>>

\* config.Default()
Default ==
    [Language |-> "en-US", Timeout |-> 60, SilenceChunks |-> 12,
     SensitivityX10 |-> 25]

\* Part 7 at rest: Load was not called.
LoadIdle ==
    /\ cfgFile = [kind |-> "none"]
    /\ loadPc = "idle"
    /\ loadCfg = Default
    /\ loadNil = TRUE
    /\ loadErr = "nil"

\* Part 8 at rest: calcRMS is not called alone.
RmsIdle ==
    /\ rmsArg = [pcm |-> <<>>, v |-> 0, n |-> 0, const |-> TRUE]
    /\ rmsPc = "idle"
    /\ rmsRet = 0

\* Part 9 at rest: no session yet, the popup as newX11Popup leaves it.
SessionIdle ==
    /\ nSessions = 0
    /\ runPc = "idle"
    /\ sesCtx = "none"
    /\ SkipVAD = FALSE
    /\ recPc = "none"
    /\ pcmEmpty = TRUE
    /\ recText = ""
    /\ recErr = "nil"
    /\ onProcessingCalls = 0
    /\ apiCalls = 0
    /\ doneAtReturn = FALSE
    /\ typeCalls = 0
    /\ exits = <<>>
    /\ popState = "stHidden"
    /\ popMapped = FALSE
    /\ hideTimers = {}

\* Parts 7 and following at rest.
RestIdle == LoadIdle /\ RmsIdle /\ SessionIdle

LaterIdle == HotkeyIdle /\ AppIdle /\ RecorderIdle /\ TyperIdle /\ RestIdle

\* flac.go is not entered in part 1.
FlacIdle ==
    /\ fn = "none"
    /\ flacPcm = <<>>
    /\ flacOut = <<>>
    /\ frameNum = 0
    /\ flacPc = "idle"
    /\ frames = <<>>
    /\ uv = 0
    /\ data = <<>>
    /\ ret = <<>>

\* ------------------------------------------------------------------- init
Init ==
    /\ SilenceChunks \in SilenceChunksSet
    /\ SensitivityX2 \in SensitivityX2Set
    /\ audioCh = <<>>
    /\ chClosed = FALSE
    /\ nSent = 0
    /\ ctxErr = "nil"
    /\ pc = "running"
    /\ retErr = "nil"
    /\ retPath = "none"
    /\ cur = calibrating
    /\ calibCount = 0
    /\ calibSum = 0
    /\ threshold = 0
    /\ speechCount = 0
    /\ silCount = 0
    /\ preRoll = <<>>
    /\ result = <<>>
    /\ nRecv = 0
    /\ out = <<>>
    /\ onsetAt = 0
    /\ FlacIdle
    /\ LaterIdle

vadVars == <<pc, retErr, retPath, cur, calibCount, calibSum, threshold,
             speechCount, silCount, preRoll, result, nRecv, out, onsetAt>>
cfgVars == <<SilenceChunks, SensitivityX2>>

\* ------------------------------------------------------------ environment
\* The environment is followed until bufferWithVAD has returned.
\* The recorder goroutine sends one chunk ("case ch <- chunk").
Send ==
    /\ pc = "running"
    /\ ~chClosed
    /\ nSent < MaxChunks
    /\ Len(audioCh) < ChanCap
    /\ \E pcm \in ChunkAlphabet :
          audioCh' = Append(audioCh, [seq |-> nSent + 1, pcm |-> pcm])
    /\ nSent' = nSent + 1
    /\ UNCHANGED <<chClosed, ctxErr, cfgVars, flacVars, laterVars, vadVars>>

\* The recorder goroutine ends ("defer close(ch)").
Close ==
    /\ pc = "running"
    /\ ~chClosed
    /\ chClosed' = TRUE
    /\ UNCHANGED <<audioCh, nSent, ctxErr, cfgVars, flacVars, laterVars, vadVars>>

\* The session context is cancelled or its deadline passes.
Cancel ==
    /\ pc = "running"
    /\ ctxErr = "nil"
    /\ ctxErr' \in CtxErrors
    /\ UNCHANGED <<audioCh, chClosed, nSent, cfgVars, flacVars, laterVars, vadVars>>

\* ---------------------------------------------------------- bufferWithVAD
\* case <-ctx.Done(): return result, ctx.Err()
CtxDone ==
    /\ pc = "running"
    /\ ctxErr # "nil"
    /\ pc' = "returned"
    /\ retErr' = ctxErr
    /\ retPath' = "cancel"
    /\ UNCHANGED <<audioCh, chClosed, nSent, ctxErr, cfgVars, flacVars, laterVars, cur,
                   calibCount, calibSum, threshold, speechCount, silCount,
                   preRoll, result, nRecv, out, onsetAt>>

\* RecvClosed flushing the pre-roll into the returned buffer.
RecvClosed_FlushPreRoll ==
    /\ pc = "running"
    /\ audioCh = <<>>
    /\ chClosed
    /\ pc' = "returned"
    /\ retErr' = "nil"
    /\ retPath' = "closed"
    /\ result' = result \o Flatten(preRoll)
    /\ out' = out \o preRoll
    /\ UNCHANGED <<audioCh, chClosed, nSent, ctxErr, cfgVars, flacVars, laterVars, cur,
                   calibCount, calibSum, threshold, speechCount, silCount,
                   preRoll, nRecv, onsetAt>>

\* RecvClosed returning ctx.Err() instead of nil.
RecvClosed_CtxErr ==
    /\ pc = "running"
    /\ audioCh = <<>>
    /\ chClosed
    /\ pc' = "returned"
    /\ retErr' = ctxErr
    /\ retPath' = "closed"
    /\ UNCHANGED <<audioCh, chClosed, nSent, ctxErr, cfgVars, flacVars, laterVars, cur,
                   calibCount, calibSum, threshold, speechCount, silCount,
                   preRoll, result, nRecv, out, onsetAt>>

\* case chunk, ok := <-audioCh: if !ok { return result, nil }
RecvClosed ==
    /\ pc = "running"
    /\ audioCh = <<>>
    /\ chClosed
    /\ pc' = "returned"
    /\ retErr' = "nil"
    /\ retPath' = "closed"
    /\ UNCHANGED <<audioCh, chClosed, nSent, ctxErr, cfgVars, flacVars, laterVars, cur,
                   calibCount, calibSum, threshold, speechCount, silCount,
                   preRoll, result, nRecv, out, onsetAt>>

\* The receive itself, common to the three phases.
Recv ==
    /\ pc = "running"
    /\ audioCh # <<>>
    /\ audioCh' = Tail(audioCh)
    /\ nRecv' = nRecv + 1
    /\ UNCHANGED <<chClosed, nSent, ctxErr, cfgVars, flacVars, laterVars>>

\* RecvCalibrating moving straight to inSpeech.
RecvCalibrating_SkipWaiting ==
    /\ Recv
    /\ cur = calibrating
    /\ LET rms == calcRMS(Head(audioCh).pcm)
       IN  /\ calibCount' = calibCount + 1
           /\ calibSum' = calibSum + rms
           /\ IF CalibrationDone(calibCount + 1)
              THEN /\ threshold' = Threshold(calibSum + rms, calibCount + 1)
                   /\ cur' = inSpeech
              ELSE UNCHANGED <<threshold, cur>>
    /\ UNCHANGED <<pc, retErr, retPath, speechCount, silCount, preRoll, result,
                   out, onsetAt>>

\* case calibrating:
RecvCalibrating ==
    /\ Recv
    /\ cur = calibrating
    /\ LET rms == calcRMS(Head(audioCh).pcm)
       IN  /\ calibCount' = calibCount + 1
           /\ calibSum' = calibSum + rms
           /\ IF CalibrationDone(calibCount + 1)
              THEN /\ threshold' = Threshold(calibSum + rms, calibCount + 1)
                   /\ cur' = waitingSpeech
              ELSE UNCHANGED <<threshold, cur>>
    /\ UNCHANGED <<pc, retErr, retPath, speechCount, silCount, preRoll, result,
                   out, onsetAt>>

\* case waitingSpeech:
RecvWaitingSpeech ==
    /\ Recv
    /\ cur = waitingSpeech
    /\ LET chunk == Head(audioCh)
           rms == calcRMS(chunk.pcm)
           pr == PushPreRoll(preRoll, chunk)
       IN  IF IsLoud(rms, threshold)
           THEN IF OnsetReached(speechCount + 1)
                THEN /\ cur' = inSpeech
                     /\ result' = result \o Flatten(pr)
                     /\ out' = out \o pr
                     /\ onsetAt' = nRecv + 1
                     /\ preRoll' = <<>>
                     /\ speechCount' = 0
                ELSE /\ speechCount' = speechCount + 1
                     /\ preRoll' = pr
                     /\ UNCHANGED <<cur, result, out, onsetAt>>
           ELSE /\ speechCount' = 0
                /\ preRoll' = pr
                /\ UNCHANGED <<cur, result, out, onsetAt>>
    /\ UNCHANGED <<pc, retErr, retPath, calibCount, calibSum, threshold, silCount>>

\* RecvInSpeech that may leave the chunk out of the result.
RecvInSpeech_MayDrop ==
    /\ Recv
    /\ cur = inSpeech
    /\ LET chunk == Head(audioCh)
           rms == calcRMS(chunk.pcm)
       IN  /\ \/ result' = result \o chunk.pcm /\ out' = Append(out, chunk)
              \/ result' = result /\ out' = out
           /\ silCount' = NextSilCount(silCount, IsLoud(rms, threshold))
           /\ IF ~IsLoud(rms, threshold) /\ SilenceEndReached(silCount + 1)
              THEN /\ pc' = "returned"
                   /\ retErr' = "nil"
                   /\ retPath' = "silence"
              ELSE UNCHANGED <<pc, retErr, retPath>>
    /\ UNCHANGED <<cur, calibCount, calibSum, threshold, speechCount, preRoll,
                   onsetAt>>

\* RecvInSpeech with a cutoff of its own: it returns once the buffer holds
\* preRollLen + 1 chunks, silence or not.
RecvInSpeech_Cutoff ==
    /\ Recv
    /\ cur = inSpeech
    /\ LET chunk == Head(audioCh)
           rms == calcRMS(chunk.pcm)
       IN  /\ result' = result \o chunk.pcm
           /\ out' = Append(out, chunk)
           /\ silCount' = NextSilCount(silCount, IsLoud(rms, threshold))
           /\ IF \/ ~IsLoud(rms, threshold) /\ SilenceEndReached(silCount + 1)
                 \/ Len(out) >= preRollLen
              THEN /\ pc' = "returned"
                   /\ retErr' = "nil"
                   /\ retPath' = "silence"
              ELSE UNCHANGED <<pc, retErr, retPath>>
    /\ UNCHANGED <<cur, calibCount, calibSum, threshold, speechCount, preRoll,
                   onsetAt>>

\* case inSpeech:
RecvInSpeech ==
    /\ Recv
    /\ cur = inSpeech
    /\ LET chunk == Head(audioCh)
           rms == calcRMS(chunk.pcm)
       IN  /\ result' = result \o chunk.pcm
           /\ out' = Append(out, chunk)
           /\ silCount' = NextSilCount(silCount, IsLoud(rms, threshold))
           /\ IF ~IsLoud(rms, threshold) /\ SilenceEndReached(silCount + 1)
              THEN /\ pc' = "returned"
                   /\ retErr' = "nil"
                   /\ retPath' = "silence"
              ELSE UNCHANGED <<pc, retErr, retPath>>
    /\ UNCHANGED <<cur, calibCount, calibSum, threshold, speechCount, preRoll,
                   onsetAt>>

Next ==
    \/ Send
    \/ Close
    \/ Cancel
    \/ CtxDone
    \/ RecvClosed
    \/ RecvCalibrating
    \/ RecvWaitingSpeech
    \/ RecvInSpeech

Spec == Init /\ [][Next]_vars

\* The loop of bufferWithVAD keeps running: a select with a ready case takes
\* one, and a case that stays ready is taken in the end (Go chooses among the
\* ready cases uniformly at random).
RecvAny == RecvClosed \/ RecvCalibrating \/ RecvWaitingSpeech \/ RecvInSpeech

\* The runs followed for liveness: one configuration, quiet and loud chunks.
InitLive == Init /\ SilenceChunks = 2 /\ SensitivityX2 = 0

SendLive ==
    /\ Send
    /\ audioCh'[Len(audioCh')].pcm \in {ChunkQuiet, ChunkLoud}

NextLive ==
    \/ SendLive
    \/ Close
    \/ Cancel
    \/ CtxDone
    \/ RecvClosed
    \/ RecvCalibrating
    \/ RecvWaitingSpeech
    \/ RecvInSpeech

SpecLive ==
    InitLive /\ [][NextLive]_vars /\ WF_vars(CtxDone) /\ WF_vars(RecvAny)

\* The runs followed for the configuration surface: SilenceChunks and
\* Sensitivity unset (0), negative and at their smallest positive values.
ConfigSilenceSet == {-1, 0, 1}
ConfigSensitivityX2Set == {-1, 0, 1}

InitConfig ==
    /\ SilenceChunks \in ConfigSilenceSet
    /\ SensitivityX2 \in ConfigSensitivityX2Set
    /\ audioCh = <<>>
    /\ chClosed = FALSE
    /\ nSent = 0
    /\ ctxErr = "nil"
    /\ pc = "running"
    /\ retErr = "nil"
    /\ retPath = "none"
    /\ cur = calibrating
    /\ calibCount = 0
    /\ calibSum = 0
    /\ threshold = 0
    /\ speechCount = 0
    /\ silCount = 0
    /\ preRoll = <<>>
    /\ result = <<>>
    /\ nRecv = 0
    /\ out = <<>>
    /\ onsetAt = 0
    /\ FlacIdle
    /\ LaterIdle

SpecConfig == InitConfig /\ [][NextLive]_vars

\* ================================================================ flac.go
\* ------------------------------------------------------------------ bounds
\* Whole frames of flacBlockSize samples in an input of pcmToFLACNative.
MaxFullFrames == 2
\* Bytes of an input beyond its whole frames.
MaxExtraBytes == 4
\* Arguments 0..MaxSmallValue of flacUTF8Int, beside the range boundaries.
MaxSmallValue == 200
\* Length of the byte sequences given to flacCRC8 and flacCRC16.
MaxCrcLen == 2

\* --------------------------------------------------------------- constants
flacSampleRate == 16000
flacBPS == 16
flacBlockSize == 4096
\* Length of the STREAMINFO payload, "var si [34]byte".
streamInfoLen == 34

\* ------------------------------------------------------------- bit helpers
RECURSIVE BitXor(_, _, _)
\* a ^ b on n-bit operands.
BitXor(a, b, n) ==
    IF n = 0 THEN 0
    ELSE ((a + b) % 2) + 2 * BitXor(a \div 2, b \div 2, n - 1)

RECURSIVE BitOr(_, _, _)
\* a | b on n-bit operands.
BitOr(a, b, n) ==
    IF n = 0 THEN 0
    ELSE (IF a % 2 = 1 \/ b % 2 = 1 THEN 1 ELSE 0)
         + 2 * BitOr(a \div 2, b \div 2, n - 1)

\* ^ on bytes, tabulated.
Xor8Table == [a \in 0..255 |-> [b \in 0..255 |-> BitXor(a, b, 8)]]
Xor8(a, b) == Xor8Table[a][b]
\* ^ on uint16.
Xor16(a, b) == 256 * Xor8(a \div 256, b \div 256) + Xor8(a % 256, b % 256)
\* | on bytes.
Or8(a, b) == BitOr(a, b, 8)
\* byte(x): the low eight bits.
Byte(x) == x % 256

\* ------------------------------------------------------------- CRC tables
RECURSIVE Crc8Shift(_, _)
\* init(): the inner loop for crc8Table, j rounds left.
Crc8Shift(v, j) ==
    IF j = 0 THEN v
    ELSE Crc8Shift(IF v >= 128 THEN Xor8((2 * v) % 256, 7) ELSE (2 * v) % 256,
                   j - 1)

RECURSIVE Crc16Shift(_, _)
\* init(): the inner loop for crc16Table, j rounds left (0x8005 = 32773).
Crc16Shift(v, j) ==
    IF j = 0 THEN v
    ELSE Crc16Shift(IF v >= 32768 THEN Xor16((2 * v) % 65536, 32773)
                    ELSE (2 * v) % 65536,
                    j - 1)

crc8Table == [i \in 0..255 |-> Crc8Shift(i, 8)]
crc16Table == [i \in 0..255 |-> Crc16Shift(i * 256, 8)]

\* crc = crc8Table[crc^b]
Crc8Step(crc, b) == crc8Table[Xor8(crc, b)]

\* crc = crc16Table[byte(crc>>8)^b] ^ (crc << 8)
Crc16Step_NoShiftIn(crc, b) == crc16Table[Xor8(crc \div 256, b)]
Crc16Step(crc, b) ==
    Xor16(crc16Table[Xor8(crc \div 256, b)], (crc * 256) % 65536)

RECURSIVE Crc8Fold(_, _, _, _)
\* "for _, b := range data" over d[lo..hi], in order, starting from crc.  The
\* range is halved, and the first half computed before the second is entered,
\* only to keep the evaluation shallow.
Crc8Fold(d, lo, hi, crc) ==
    IF lo > hi THEN crc
    ELSE IF lo = hi THEN Crc8Step(crc, d[lo])
    ELSE LET mid == (lo + hi) \div 2
             left == Crc8Fold(d, lo, mid, crc)
         IN  IF left >= 0 THEN Crc8Fold(d, mid + 1, hi, left) ELSE left

RECURSIVE Crc16Fold(_, _, _, _)
Crc16Fold(d, lo, hi, crc) ==
    IF lo > hi THEN crc
    ELSE IF lo = hi THEN Crc16Step(crc, d[lo])
    ELSE LET mid == (lo + hi) \div 2
             left == Crc16Fold(d, lo, mid, crc)
         IN  IF left >= 0 THEN Crc16Fold(d, mid + 1, hi, left) ELSE left

flacCRC8(d) == Crc8Fold(d, 1, Len(d), 0)
flacCRC16(d) == Crc16Fold(d, 1, Len(d), 0)

\* ------------------------------------------------------------ flacUTF8Int
\* The three-byte case shifting the lead byte by 11 instead of 12.
flacUTF8Int_BadShift(v) ==
    IF v < 128 THEN <<Byte(v)>>
    ELSE IF v < 2048 THEN
        <<Or8(192, Byte(v \div 64)), Or8(128, Byte(v % 64))>>
    ELSE IF v < 65536 THEN
        <<Or8(224, Byte(v \div 2048)), Or8(128, Byte((v \div 64) % 64)),
          Or8(128, Byte(v % 64))>>
    ELSE IF v < 2097152 THEN
        <<Or8(240, Byte(v \div 262144)), Or8(128, Byte((v \div 4096) % 64)),
          Or8(128, Byte((v \div 64) % 64)), Or8(128, Byte(v % 64))>>
    ELSE
        <<Or8(248, Byte(v \div 16777216)), Or8(128, Byte((v \div 262144) % 64)),
          Or8(128, Byte((v \div 4096) % 64)), Or8(128, Byte((v \div 64) % 64)),
          Or8(128, Byte(v % 64))>>

flacUTF8Int(v) ==
    IF v < 128 THEN <<Byte(v)>>
    ELSE IF v < 2048 THEN
        <<Or8(192, Byte(v \div 64)), Or8(128, Byte(v % 64))>>
    ELSE IF v < 65536 THEN
        <<Or8(224, Byte(v \div 4096)), Or8(128, Byte((v \div 64) % 64)),
          Or8(128, Byte(v % 64))>>
    ELSE IF v < 2097152 THEN
        <<Or8(240, Byte(v \div 262144)), Or8(128, Byte((v \div 4096) % 64)),
          Or8(128, Byte((v \div 64) % 64)), Or8(128, Byte(v % 64))>>
    ELSE
        <<Or8(248, Byte(v \div 16777216)), Or8(128, Byte((v \div 262144) % 64)),
          Or8(128, Byte((v \div 4096) % 64)), Or8(128, Byte((v \div 64) % 64)),
          Or8(128, Byte(v % 64))>>

\* --------------------------------------------------------- flacStreamInfo
\* binary.BigEndian.PutUint16
BE16(x) == <<Byte(x \div 256), Byte(x)>>
\* binary.BigEndian.PutUint32(uint32(x)), for x below 2^31
BE32(x) == <<Byte(x \div 16777216), Byte(x \div 65536), Byte(x \div 256), Byte(x)>>

Zeros(n) == [i \in 1..n |-> 0]

\* The 34-byte STREAMINFO payload; totalSamples is below 2^31 here, so
\* ts>>32 is 0.
flacStreamInfo(totalSamples) ==
    LET sr == flacSampleRate
        bpsM1 == flacBPS - 1
        tsHigh == (totalSamples \div 65536) \div 65536
    IN  BE16(flacBlockSize) \o BE16(flacBlockSize) \o Zeros(6)
        \o << Byte(sr \div 4096),
              Byte(sr \div 16),
              Or8(Or8(Byte((sr % 16) * 16), 0), Byte(bpsM1 \div 16)),
              Or8(Byte((bpsM1 % 16) * 16), Byte(tsHigh)) >>
        \o BE32(totalSamples)
        \o Zeros(16)

\* -------------------------------------------------------- flacEncodeFrame
\* isLastPartial
IsLastPartial_AnyLast(num, totalSamples, nSamples) ==
    (num + 1) * flacBlockSize >= totalSamples
IsLastPartial(num, totalSamples, nSamples) ==
    (num + 1) * flacBlockSize > totalSamples /\ nSamples # flacBlockSize

\* binary.BigEndian.PutUint16(buf[:], uint16(nSamples-1))
BlockSizeBytes_NoMinusOne(nSamples) == BE16(nSamples % 65536)
BlockSizeBytes(nSamples) == BE16((nSamples - 1) % 65536)

\* for i := 0; i < len(pcm); i += 2 { WriteByte(pcm[i+1]); WriteByte(pcm[i]) }
\* (p of even length; an odd length panics in pcm[i+1])
SwapSamples_NoSwap(p) == p
SwapSamples(p) ==
    [i \in 1..Len(p) |-> IF i % 2 = 1 THEN p[i + 1] ELSE p[i - 1]]

\* pcm[i+1] with i = len(pcm)-1: index out of range
FramePanics(p) == Len(p) % 2 = 1

\* The frame header up to, and without, its CRC-8.
FrameHeader(num, totalSamples, p) ==
    LET nSamples == Len(p) \div 2
        partial == IsLastPartial(num, totalSamples, nSamples)
        bsCode == IF partial THEN 7 ELSE 12
    IN  <<255, 248, Or8(Byte(bsCode * 16), 0), 0>>
        \o flacUTF8Int(num)
        \o (IF partial THEN BlockSizeBytes(nSamples) ELSE <<>>)

flacEncodeFrame(num, totalSamples, p) ==
    LET hdr0 == FrameHeader(num, totalSamples, p)
        hdr == Append(hdr0, flacCRC8(hdr0))
        sub == <<2>> \o SwapSamples(p)
        frameData == hdr \o sub
        crc16 == flacCRC16(frameData)
    IN  frameData \o <<Byte(crc16 \div 256), Byte(crc16)>>

\* ----------------------------------------------------------------- inputs
\* Content of an input: all zero for seed 0 (make([]byte, n) in the tests),
\* otherwise bytes that differ within a sample and from frame to frame.
PcmPattern(n, seed) ==
    [i \in 1..n |-> (seed * i + seed * (i \div 251)) % 256]
PcmSeeds == {0, 37}
\* Lengths in bytes: up to MaxFullFrames whole frames plus up to
\* MaxExtraBytes bytes, and the flacBlockSize*2+100 of
\* TestPCMToFLACNativePartialLastFrame.
PcmLengths ==
    {f * flacBlockSize * 2 + e : f \in 0..MaxFullFrames, e \in 0..MaxExtraBytes}
    \cup {flacBlockSize * 2 + 100}
PcmInputs == {PcmPattern(n, seed) : n \in PcmLengths, seed \in PcmSeeds}

\* Arguments of flacUTF8Int: small values, the values around each range
\* boundary of the switch, and values of 27 and 28 bits.
UTF8Values ==
    0..MaxSmallValue
    \cup {127, 128, 2047, 2048, 4095, 4096, 65535, 65536, 2097151, 2097152,
          67108863, 67108864, 134217728, 136314880, 268435455}

\* Arguments of flacCRC8 and flacCRC16: every sequence of bytes up to
\* MaxCrcLen long over CrcBytes, every single byte, and the inputs of
\* TestFlacCRC8KnownValue and TestFlacCRC16KnownValue.
CrcBytes == {0, 1, 127, 128, 255}
CrcInputs ==
    UNION {[1..n -> CrcBytes] : n \in 0..MaxCrcLen}
    \cup {<<b>> : b \in 0..255}
    \cup {<<255, 248, 112, 0, 0>>, <<1, 2, 3, 4>>,
          <<255, 248, 112, 0, 0, 2, 18, 52>>}

\* bufferWithVAD is not running in part 2.
VadIdle ==
    /\ SilenceChunks = 0
    /\ SensitivityX2 = 0
    /\ audioCh = <<>>
    /\ chClosed = FALSE
    /\ nSent = 0
    /\ ctxErr = "nil"
    /\ pc = "idle"
    /\ retErr = "nil"
    /\ retPath = "none"
    /\ cur = calibrating
    /\ calibCount = 0
    /\ calibSum = 0
    /\ threshold = 0
    /\ speechCount = 0
    /\ silCount = 0
    /\ preRoll = <<>>
    /\ result = <<>>
    /\ nRecv = 0
    /\ out = <<>>
    /\ onsetAt = 0

vadAll == <<SilenceChunks, SensitivityX2, audioCh, chClosed, nSent, ctxErr,
            vadVars>>

\* One call of one function of flac.go, with its argument.
InitFlac ==
    /\ VadIdle
    /\ LaterIdle
    /\ flacOut = <<>>
    /\ frameNum = 0
    /\ flacPc = "start"
    /\ frames = <<>>
    /\ ret = <<>>
    /\ \/ fn = "pcmToFLACNative" /\ flacPcm \in PcmInputs /\ uv = 0 /\ data = <<>>
       \/ fn = "flacUTF8Int" /\ flacPcm = <<>> /\ uv \in UTF8Values /\ data = <<>>
       \/ fn = "flacCRC" /\ flacPcm = <<>> /\ uv = 0 /\ data \in CrcInputs

\* nSamples := int64(len(pcm) / 2)
nSamplesTotal == Len(flacPcm) \div 2

\* int64(frameNum)*flacBlockSize < nSamples
MoreFrames_OneMore(num, nSamples) == num * flacBlockSize <= nSamples
MoreFrames(num, nSamples) == num * flacBlockSize < nSamples

\* pcm[start:end] of the loop body
FrameSlice(p, num) ==
    LET start == num * flacBlockSize * 2
        end0 == start + flacBlockSize * 2
        end == IF end0 > Len(p) THEN Len(p) ELSE end0
    IN  SubSeq(p, start + 1, end)

\* ------------------------------------------------------- pcmToFLACNative
\* out.WriteString("fLaC"); the metadata block header; the STREAMINFO block
FlacWriteHeader ==
    /\ fn = "pcmToFLACNative"
    /\ flacPc = "start"
    /\ flacOut' = <<102, 76, 97, 67>> \o <<128, 0, 0, 34>>
                  \o flacStreamInfo(nSamplesTotal)
    /\ frameNum' = 0
    /\ flacPc' = "frames"
    /\ UNCHANGED <<fn, flacPcm, frames, uv, data, ret, vadAll, laterVars>>

\* One iteration of the frame loop.
FlacWriteFrame ==
    /\ fn = "pcmToFLACNative"
    /\ flacPc = "frames"
    /\ MoreFrames(frameNum, nSamplesTotal)
    /\ LET p == FrameSlice(flacPcm, frameNum)
       IN  /\ ~FramePanics(p)
           /\ LET frame == flacEncodeFrame(frameNum, nSamplesTotal, p)
              IN  /\ flacOut' = flacOut \o frame
                  /\ frames' = Append(frames, [num |-> frameNum, src |-> p,
                                               bytes |-> frame])
    /\ frameNum' = frameNum + 1
    /\ UNCHANGED <<fn, flacPcm, flacPc, uv, data, ret, vadAll, laterVars>>

\* One iteration of the frame loop on a slice of odd length: flacEncodeFrame
\* panics (index out of range) and pcmToFLACNative does not return.
FlacFramePanic ==
    /\ fn = "pcmToFLACNative"
    /\ flacPc = "frames"
    /\ MoreFrames(frameNum, nSamplesTotal)
    /\ FramePanics(FrameSlice(flacPcm, frameNum))
    /\ flacPc' = "panic"
    /\ UNCHANGED <<fn, flacPcm, flacOut, frameNum, frames, uv, data, ret, vadAll, laterVars>>

\* return out.Bytes()
FlacReturn ==
    /\ fn = "pcmToFLACNative"
    /\ flacPc = "frames"
    /\ ~MoreFrames(frameNum, nSamplesTotal)
    /\ flacPc' = "done"
    /\ UNCHANGED <<fn, flacPcm, flacOut, frameNum, frames, uv, data, ret, vadAll, laterVars>>

\* A call of flacUTF8Int(uv).
CallUTF8Int ==
    /\ fn = "flacUTF8Int"
    /\ flacPc = "start"
    /\ ret' = flacUTF8Int(uv)
    /\ flacPc' = "done"
    /\ UNCHANGED <<fn, flacPcm, flacOut, frameNum, frames, uv, data, vadAll, laterVars>>

\* A call of flacCRC8(data) and one of flacCRC16(data).
CallCRC ==
    /\ fn = "flacCRC"
    /\ flacPc = "start"
    /\ ret' = <<flacCRC8(data), flacCRC16(data)>>
    /\ flacPc' = "done"
    /\ UNCHANGED <<fn, flacPcm, flacOut, frameNum, frames, uv, data, vadAll, laterVars>>

NextFlac ==
    \/ FlacWriteHeader
    \/ FlacWriteFrame
    \/ FlacFramePanic
    \/ FlacReturn
    \/ CallUTF8Int
    \/ CallCRC

SpecFlac == InitFlac /\ [][NextFlac]_vars

\* ===================================================== Manager.eventLoop
\* Part 3 (specification SpecHotkey): the event loop of the hotkey manager,
\* in toggle mode (Register) and in push-to-talk mode (RegisterPushToTalk),
\* with the release goroutines it starts and the X server as environment.
\*
\* Time.  A release goroutine sleeps autoRepeatGrace (50 ms) before it acts.
\* The model lets it act only after the event loop has read the events that
\* were already delivered when the goroutine was started (wait counts them):
\* the KeyPress of an auto-repeat pair is delivered together with its
\* KeyRelease and is read long before the grace ends.  Goroutines started by
\* earlier releases are not ordered with respect to later events.

\* Physical presses, releases and auto-repeats in one run.
MaxKeyEvents == 5

\* The variables outside part 3.
outsideHk == <<vadAll, flacVars, appVars, recVars, typVars, restVars>>

InitHotkey ==
    /\ VadIdle
    /\ FlacIdle
    /\ AppIdle
    /\ RecorderIdle
    /\ TyperIdle
    /\ RestIdle
    /\ hkMode \in {"toggle", "ptt"}
    /\ keyHeld = FALSE
    /\ xEvents = <<>>
    /\ hkStopped = FALSE
    /\ pressed = FALSE
    /\ pendingRelease = FALSE
    /\ releaseGen = 0
    /\ timers = {}
    /\ onPressCalls = 0
    /\ onReleaseCalls = 0
    /\ physPresses = 0
    /\ physReleases = 0
    /\ nKeyEvents = 0

\* isPTT := onRelease != nil
isPTT == hkMode = "ptt"

\* ---------------------------------------------------------- the X server
\* The user presses the key.
PhysicalPress ==
    /\ hkMode # "none"
    /\ ~keyHeld
    /\ nKeyEvents < MaxKeyEvents
    /\ keyHeld' = TRUE
    /\ xEvents' = Append(xEvents, "KeyPress")
    /\ physPresses' = physPresses + 1
    /\ nKeyEvents' = nKeyEvents + 1
    /\ UNCHANGED <<hkMode, hkStopped, pressed, pendingRelease, releaseGen,
                   timers, onPressCalls, onReleaseCalls, physReleases,
                   outsideHk>>

\* The user lets the key go.
PhysicalRelease ==
    /\ hkMode # "none"
    /\ keyHeld
    /\ nKeyEvents < MaxKeyEvents
    /\ keyHeld' = FALSE
    /\ xEvents' = Append(xEvents, "KeyRelease")
    /\ physReleases' = physReleases + 1
    /\ nKeyEvents' = nKeyEvents + 1
    /\ UNCHANGED <<hkMode, hkStopped, pressed, pendingRelease, releaseGen,
                   timers, onPressCalls, onReleaseCalls, physPresses,
                   outsideHk>>

\* Auto-repeat: the server sends a KeyRelease+KeyPress pair while the key is
\* held.
AutoRepeat ==
    /\ hkMode # "none"
    /\ keyHeld
    /\ nKeyEvents < MaxKeyEvents
    /\ xEvents' = xEvents \o <<"KeyRelease", "KeyPress">>
    /\ nKeyEvents' = nKeyEvents + 1
    /\ UNCHANGED <<hkMode, keyHeld, hkStopped, pressed, pendingRelease,
                   releaseGen, timers, onPressCalls, onReleaseCalls,
                   physPresses, physReleases, outsideHk>>

\* Manager.Stop
HotkeyStop ==
    /\ hkMode # "none"
    /\ ~hkStopped
    /\ hkStopped' = TRUE
    /\ UNCHANGED <<hkMode, keyHeld, xEvents, pressed, pendingRelease,
                   releaseGen, timers, onPressCalls, onReleaseCalls,
                   physPresses, physReleases, nKeyEvents, outsideHk>>

\* ------------------------------------------------------------- eventLoop
\* One more delivered event has been read: the goroutines started before it
\* have one event less to wait for.
EventRead(ts) ==
    {[t EXCEPT !.wait = IF @ > 0 THEN @ - 1 ELSE 0] : t \in ts}

\* case xproto.KeyPressEvent:
HandleKeyPress ==
    /\ hkMode # "none"
    /\ ~hkStopped
    /\ xEvents # <<>>
    /\ Head(xEvents) = "KeyPress"
    /\ xEvents' = Tail(xEvents)
    /\ timers' = EventRead(timers)
    /\ IF isPTT
       THEN IF pendingRelease
            THEN \* pendingRelease.Swap(false) gave true
                 /\ pendingRelease' = FALSE
                 /\ releaseGen' = releaseGen + 1
                 /\ pressed' = TRUE
                 /\ UNCHANGED onPressCalls
            ELSE IF ~pressed
            THEN /\ pressed' = TRUE
                 /\ onPressCalls' = onPressCalls + 1
                 /\ UNCHANGED <<pendingRelease, releaseGen>>
            ELSE UNCHANGED <<pendingRelease, releaseGen, pressed, onPressCalls>>
       ELSE IF ~pressed
            THEN /\ pressed' = TRUE
                 /\ onPressCalls' = onPressCalls + 1
                 /\ UNCHANGED <<pendingRelease, releaseGen>>
            ELSE UNCHANGED <<pendingRelease, releaseGen, pressed, onPressCalls>>
    /\ UNCHANGED <<hkMode, keyHeld, hkStopped, onReleaseCalls, physPresses,
                   physReleases, nKeyEvents, outsideHk>>

\* case xproto.KeyReleaseEvent:
HandleKeyRelease ==
    /\ hkMode # "none"
    /\ ~hkStopped
    /\ xEvents # <<>>
    /\ Head(xEvents) = "KeyRelease"
    /\ xEvents' = Tail(xEvents)
    /\ pressed' = FALSE
    /\ IF isPTT
       THEN /\ pendingRelease' = TRUE
            /\ releaseGen' = releaseGen + 1
            /\ timers' = EventRead(timers)
                         \cup {[gen |-> releaseGen + 1,
                                wait |-> Len(xEvents) - 1,
                                stage |-> "sleep"]}
       ELSE /\ timers' = EventRead(timers)
            /\ UNCHANGED <<pendingRelease, releaseGen>>
    /\ UNCHANGED <<hkMode, keyHeld, hkStopped, onPressCalls, onReleaseCalls,
                   physPresses, physReleases, nKeyEvents, outsideHk>>

\* The release goroutine after time.Sleep: pendingRelease.Store(false)
TimerClear ==
    /\ \E t \in timers :
          /\ t.stage = "sleep"
          /\ t.wait = 0
          /\ pendingRelease' = FALSE
          /\ timers' = (timers \ {t}) \cup {[t EXCEPT !.stage = "check"]}
    /\ UNCHANGED <<hkMode, keyHeld, xEvents, hkStopped, pressed, releaseGen,
                   onPressCalls, onReleaseCalls, physPresses, physReleases,
                   nKeyEvents, outsideHk>>

\* The release goroutine: if releaseGen.Load() == gen { rel() }
TimerCheck ==
    /\ \E t \in timers :
          /\ t.stage = "check"
          /\ timers' = timers \ {t}
          /\ onReleaseCalls' =
                IF releaseGen = t.gen THEN onReleaseCalls + 1 ELSE onReleaseCalls
    /\ UNCHANGED <<hkMode, keyHeld, xEvents, hkStopped, pressed,
                   pendingRelease, releaseGen, onPressCalls, physPresses,
                   physReleases, nKeyEvents, outsideHk>>

NextHotkey ==
    \/ PhysicalPress
    \/ PhysicalRelease
    \/ AutoRepeat
    \/ HotkeyStop
    \/ HandleKeyPress
    \/ HandleKeyRelease
    \/ TimerClear
    \/ TimerCheck

SpecHotkey == InitHotkey /\ [][NextHotkey]_vars

\* ============================================== app: dictation sessions
\* Part 4 (specification SpecApp): the toggle hotkey (toggleDictation), the
\* push-to-talk hotkey (pttStartDictation on press, recorder.Stop on release),
\* the runDictation goroutines they start and the one Recorder they share.
\* The hotkey event loops are taken to deliver one onPress per press and one
\* onRelease per release.  Audio content is left out: a session is followed
\* up to the return of Recognize.

\* Presses of the two hotkeys in one run.
MaxPresses == 3

\* The variables outside part 4.
outsideApp == <<vadAll, flacVars, hkVars, recVars, typVars, restVars>>

InitApp ==
    /\ VadIdle
    /\ FlacIdle
    /\ HotkeyIdle
    /\ AppIdle
    /\ RecorderIdle
    /\ TyperIdle
    /\ RestIdle

Goroutines == 1..Len(dict)

\* The recording's context (context.WithCancel(ctx) in Recorder.Start) is
\* done: its own cancel was called or the session's context is done.
RecDone(d) == d.recCancelled \/ d.ctx # "live"

\* A dictation started by the toggle hotkey that has not finished.
ToggleInProgress ==
    \E g \in Goroutines :
        /\ dict[g].kind = "toggle"
        /\ dict[g].pc \in {"spawned", "start", "recognize"}

\* Recorder.Stop applied to the goroutine records d
RecorderStop(d) ==
    IF rCancel # 0 THEN [d EXCEPT ![rCancel].recCancelled = TRUE] ELSE d

NewGoroutine(k) ==
    [kind |-> k, pc |-> "spawned", ctx |-> "none", recCancelled |-> FALSE,
     chOpen |-> FALSE, outcome |-> "none"]

\* The toggle hotkey is pressed: go onPress(), that is go a.toggleDictation()
TogglePress ==
    /\ nAppPresses < MaxPresses
    /\ nAppPresses' = nAppPresses + 1
    /\ pendingToggles' = pendingToggles + 1
    /\ UNCHANGED <<isListening, cancelDicta, dict, rCancel,
                   pendingToggleStops, toggleLog, pttHeld, pendingPttStops,
                   outsideApp>>

\* toggleDictation: listening := a.isListening under a.mu, then the branch:
\* "go a.startDictation()" at once, a.stopDictation() as a later step.
ToggleRead ==
    /\ pendingToggles > 0
    /\ pendingToggles' = pendingToggles - 1
    /\ toggleLog' = Append(toggleLog, [inProgress |-> ToggleInProgress,
                                       started |-> ~isListening])
    /\ IF isListening
       THEN /\ pendingToggleStops' = pendingToggleStops + 1
            /\ UNCHANGED dict
       ELSE /\ dict' = Append(dict, NewGoroutine("toggle"))
            /\ UNCHANGED pendingToggleStops
    /\ UNCHANGED <<isListening, cancelDicta, rCancel, pttHeld,
                   pendingPttStops, nAppPresses, outsideApp>>

\* stopDictation
ToggleStop ==
    /\ pendingToggleStops > 0
    /\ pendingToggleStops' = pendingToggleStops - 1
    /\ dict' = IF cancelDicta # 0 /\ dict[cancelDicta].ctx = "live"
               THEN [dict EXCEPT ![cancelDicta].ctx = "canceled"]
               ELSE dict
    /\ UNCHANGED <<isListening, cancelDicta, rCancel, pendingToggles,
                   toggleLog, pttHeld, pendingPttStops, nAppPresses,
                   outsideApp>>

\* The push-to-talk key goes down: pttStartDictation, go a.runDictation(rec)
PttPress ==
    /\ ~pttHeld
    /\ nAppPresses < MaxPresses
    /\ nAppPresses' = nAppPresses + 1
    /\ pttHeld' = TRUE
    /\ dict' = Append(dict, NewGoroutine("ptt"))
    /\ UNCHANGED <<isListening, cancelDicta, rCancel, pendingToggles,
                   pendingToggleStops, toggleLog, pendingPttStops,
                   outsideApp>>

\* The push-to-talk key goes up: the release callback is on its way.
PttRelease ==
    /\ pttHeld
    /\ pttHeld' = FALSE
    /\ pendingPttStops' = pendingPttStops + 1
    /\ UNCHANGED <<isListening, cancelDicta, dict, rCancel, pendingToggles,
                   pendingToggleStops, toggleLog, nAppPresses, outsideApp>>

\* The release callback: a.recorder.Stop
PttStop ==
    /\ pendingPttStops > 0
    /\ pendingPttStops' = pendingPttStops - 1
    /\ dict' = RecorderStop(dict)
    /\ UNCHANGED <<isListening, cancelDicta, rCancel, pendingToggles,
                   pendingToggleStops, toggleLog, pttHeld, nAppPresses,
                   outsideApp>>

\* runDictation that does not test isListening.
RunBegin_NoTest(g) ==
    /\ dict[g].pc = "spawned"
    /\ isListening' = TRUE
    /\ cancelDicta' = g
    /\ dict' = [dict EXCEPT ![g].pc = "start", ![g].ctx = "live"]
    /\ UNCHANGED <<rCancel, pendingToggles, pendingToggleStops, toggleLog,
                   pttHeld, pendingPttStops, nAppPresses, outsideApp>>

\* runDictation up to a.mu.Unlock()
RunBegin(g) ==
    /\ dict[g].pc = "spawned"
    /\ IF isListening
       THEN /\ dict' = [dict EXCEPT ![g].pc = "skipped"]
            /\ UNCHANGED <<isListening, cancelDicta>>
       ELSE /\ isListening' = TRUE
            /\ cancelDicta' = g
            /\ dict' = [dict EXCEPT ![g].pc = "start", ![g].ctx = "live"]
    /\ UNCHANGED <<rCancel, pendingToggles, pendingToggleStops, toggleLog,
                   pttHeld, pendingPttStops, nAppPresses, outsideApp>>

\* The deferred function of runDictation
Deferred(d, g, res) ==
    [d EXCEPT ![g].pc = "done",
              ![g].outcome = res,
              ![g].ctx = IF @ = "live" THEN "canceled" ELSE @]

\* Recorder.Start: r.Stop(), r.cancel = cancel, the channel and its reader
RecorderStart(g) ==
    /\ dict[g].pc = "start"
    /\ rCancel' = g
    /\ dict' = [RecorderStop(dict) EXCEPT ![g].pc = "recognize",
                                          ![g].chOpen = TRUE]
    /\ UNCHANGED <<isListening, cancelDicta, pendingToggles,
                   pendingToggleStops, toggleLog, pttHeld, pendingPttStops,
                   nAppPresses, outsideApp>>

\* Recorder.Start fails (no pipe, no arecord): "Mic error", return
RecorderStartFails(g) ==
    /\ dict[g].pc = "start"
    /\ rCancel' = g
    /\ dict' = [Deferred(RecorderStop(dict), g, "micError")
                    EXCEPT ![g].recCancelled = TRUE]
    /\ isListening' = FALSE
    /\ cancelDicta' = 0
    /\ UNCHANGED <<pendingToggles, pendingToggleStops, toggleLog, pttHeld,
                   pendingPttStops, nAppPresses, outsideApp>>

\* context.WithTimeout: the session's deadline passes
SessionTimeout(g) ==
    /\ dict[g].pc \in {"start", "recognize"}
    /\ dict[g].ctx = "live"
    /\ dict' = [dict EXCEPT ![g].ctx = "deadline"]
    /\ UNCHANGED <<isListening, cancelDicta, rCancel, pendingToggles,
                   pendingToggleStops, toggleLog, pttHeld, pendingPttStops,
                   nAppPresses, outsideApp>>

\* The reader goroutine of Recorder.Start returns and closes the channel:
\* its context is done (arecord is killed), or arecord ended by itself.
ReaderClose(g) ==
    /\ dict[g].chOpen
    /\ dict' = [dict EXCEPT ![g].chOpen = FALSE]
    /\ UNCHANGED <<isListening, cancelDicta, rCancel, pendingToggles,
                   pendingToggleStops, toggleLog, pttHeld, pendingPttStops,
                   nAppPresses, outsideApp>>

\* What the session shows after Recognize returned
Outcome(d) ==
    CASE d.ctx = "deadline" -> "timeout"
      [] d.ctx = "canceled" -> "canceled"
      [] OTHER -> "submitted"

\* rec.Recognize returns (bufferAll: channel closed or ctx done;
\* bufferWithVAD: also at the end of speech), then a.recorder.Stop() and the
\* deferred function
Finish(g) ==
    /\ dict[g].pc = "recognize"
    /\ \/ ~dict[g].chOpen
       \/ dict[g].ctx # "live"
       \/ dict[g].kind = "toggle"
    /\ dict' = Deferred(RecorderStop(dict), g, Outcome(dict[g]))
    /\ isListening' = FALSE
    /\ cancelDicta' = 0
    /\ UNCHANGED <<rCancel, pendingToggles, pendingToggleStops, toggleLog,
                   pttHeld, pendingPttStops, nAppPresses, outsideApp>>

NextApp ==
    \/ TogglePress
    \/ ToggleRead
    \/ ToggleStop
    \/ PttPress
    \/ PttRelease
    \/ PttStop
    \/ \E g \in Goroutines : RunBegin(g)
    \/ \E g \in Goroutines : RecorderStart(g)
    \/ \E g \in Goroutines : RecorderStartFails(g)
    \/ \E g \in Goroutines : SessionTimeout(g)
    \/ \E g \in Goroutines : ReaderClose(g)
    \/ \E g \in Goroutines : Finish(g)

SpecApp == InitApp /\ [][NextApp]_vars

\* ================================================== Recorder.Start / Stop
\* Part 5 (specification SpecRecorder): one call of Recorder.Start, the
\* arecord process, the reader goroutine, the channel ch and its consumer.
\* The channel holds ChanCap chunks (16 in the source).  stdout.Read returns
\* either data or an error: a pipe does not return both at once.

\* Chunks arecord writes in one run.
MaxRecChunks == 3

\* The variables outside part 5.
outsideRec == <<vadAll, flacVars, hkVars, appVars, typVars, restVars>>

InitRecorder ==
    /\ VadIdle
    /\ FlacIdle
    /\ HotkeyIdle
    /\ AppIdle
    /\ RecorderIdle
    /\ TyperIdle
    /\ RestIdle

\* ctx, cancel := context.WithCancel(ctx): done when Stop called cancel or
\* the parent is done
recCtxDone == recStopped \/ recParentDone

\* The caller's context is cancelled or times out, before or after Start.
ParentDone ==
    /\ rdPc # "failed"
    /\ ~recParentDone
    /\ recParentDone' = TRUE
    /\ UNCHANGED <<rdPc, rdChunk, arecord, pipe, nProduced, nRead, recCh,
                   recClosed, closeCount, recStopped, received, seenClosed,
                   outsideRec>>

\* Recorder.Start returns ch, nil
Start ==
    /\ rdPc = "none"
    /\ ~recParentDone
    /\ rdPc' = "read"
    /\ arecord' = "running"
    /\ UNCHANGED <<rdChunk, pipe, nProduced, nRead, recCh, recClosed,
                   closeCount, recStopped, recParentDone, received,
                   seenClosed, outsideRec>>

\* Recorder.Start returns nil, err: no pipe, arecord does not start, or the
\* context is done already
StartFails ==
    /\ rdPc = "none"
    /\ rdPc' = "failed"
    /\ UNCHANGED <<rdChunk, arecord, pipe, nProduced, nRead, recCh, recClosed,
                   closeCount, recStopped, recParentDone, received,
                   seenClosed, outsideRec>>

\* Recorder.Stop, called after Start returned
StopCall ==
    /\ rdPc \notin {"none", "failed"}
    /\ ~recStopped
    /\ recStopped' = TRUE
    /\ UNCHANGED <<rdPc, rdChunk, arecord, pipe, nProduced, nRead, recCh,
                   recClosed, closeCount, recParentDone, received, seenClosed,
                   outsideRec>>

\* arecord writes a chunk to its stdout
ArecordWrite ==
    /\ arecord = "running"
    /\ nProduced < MaxRecChunks
    /\ nProduced' = nProduced + 1
    /\ pipe' = pipe + 1
    /\ UNCHANGED <<rdPc, rdChunk, arecord, nRead, recCh, recClosed,
                   closeCount, recStopped, recParentDone, received,
                   seenClosed, outsideRec>>

\* arecord ends: exec.CommandContext kills it when ctx is done, or it fails
\* by itself (the device goes away)
ArecordKilled ==
    /\ arecord = "running"
    /\ recCtxDone
    /\ arecord' = "dead"
    /\ UNCHANGED <<rdPc, rdChunk, pipe, nProduced, nRead, recCh, recClosed,
                   closeCount, recStopped, recParentDone, received,
                   seenClosed, outsideRec>>

ArecordExit ==
    /\ arecord = "running"
    /\ ~recCtxDone
    /\ arecord' = "dead"
    /\ UNCHANGED <<rdPc, rdChunk, pipe, nProduced, nRead, recCh, recClosed,
                   closeCount, recStopped, recParentDone, received,
                   seenClosed, outsideRec>>

\* n, err := stdout.Read(buf) with n > 0
ReaderRead ==
    /\ rdPc = "read"
    /\ pipe > 0
    /\ pipe' = pipe - 1
    /\ nRead' = nRead + 1
    /\ rdChunk' = nRead + 1
    /\ rdPc' = "send"
    /\ UNCHANGED <<arecord, nProduced, recCh, recClosed, closeCount,
                   recStopped, recParentDone, received, seenClosed,
                   outsideRec>>

\* stdout.Read returns an error (end of file): return
ReaderReadErr ==
    /\ rdPc = "read"
    /\ pipe = 0
    /\ arecord = "dead"
    /\ rdPc' = "wait"
    /\ UNCHANGED <<rdChunk, arecord, pipe, nProduced, nRead, recCh, recClosed,
                   closeCount, recStopped, recParentDone, received,
                   seenClosed, outsideRec>>

\* select: case ch <- chunk
ReaderSend ==
    /\ rdPc = "send"
    /\ Len(recCh) < ChanCap
    /\ recCh' = Append(recCh, rdChunk)
    /\ rdChunk' = 0
    /\ rdPc' = "read"
    /\ UNCHANGED <<arecord, pipe, nProduced, nRead, recClosed, closeCount,
                   recStopped, recParentDone, received, seenClosed,
                   outsideRec>>

\* select: the case <-ctx.Done(), never taken.
ReaderCtxDone_Never ==
    /\ FALSE
    /\ UNCHANGED vars

\* select: case <-ctx.Done(): return
ReaderCtxDone ==
    /\ rdPc = "send"
    /\ recCtxDone
    /\ rdChunk' = 0
    /\ rdPc' = "wait"
    /\ UNCHANGED <<arecord, pipe, nProduced, nRead, recCh, recClosed,
                   closeCount, recStopped, recParentDone, received,
                   seenClosed, outsideRec>>

\* The deferred calls of the reader: cmd.Wait() returns once arecord has
\* ended, then close(ch)
ReaderReturn ==
    /\ rdPc = "wait"
    /\ arecord = "dead"
    /\ rdPc' = "returned"
    /\ recClosed' = TRUE
    /\ closeCount' = closeCount + 1
    /\ UNCHANGED <<rdChunk, arecord, pipe, nProduced, nRead, recCh,
                   recStopped, recParentDone, received, seenClosed,
                   outsideRec>>

\* The consumer: chunk, ok := <-ch with ok true
ConsumerRecv ==
    /\ recCh # <<>>
    /\ received' = Append(received, Head(recCh))
    /\ recCh' = Tail(recCh)
    /\ UNCHANGED <<rdPc, rdChunk, arecord, pipe, nProduced, nRead, recClosed,
                   closeCount, recStopped, recParentDone, seenClosed,
                   outsideRec>>

\* The consumer: chunk, ok := <-ch with ok false
ConsumerRecvClosed ==
    /\ recCh = <<>>
    /\ recClosed
    /\ ~seenClosed
    /\ seenClosed' = TRUE
    /\ UNCHANGED <<rdPc, rdChunk, arecord, pipe, nProduced, nRead, recCh,
                   recClosed, closeCount, recStopped, recParentDone, received,
                   outsideRec>>

ReaderStep ==
    \/ ReaderRead
    \/ ReaderReadErr
    \/ ReaderSend
    \/ ReaderCtxDone
    \/ ReaderReturn

NextRecorder ==
    \/ ParentDone
    \/ Start
    \/ StartFails
    \/ StopCall
    \/ ArecordWrite
    \/ ArecordKilled
    \/ ArecordExit
    \/ ReaderRead
    \/ ReaderReadErr
    \/ ReaderSend
    \/ ReaderCtxDone
    \/ ReaderReturn
    \/ ConsumerRecv
    \/ ConsumerRecvClosed

\* The reader goroutine is scheduled while it can take a step, and the
\* process of a done context is killed.
SpecRecorder ==
    /\ InitRecorder
    /\ [][NextRecorder]_vars
    /\ WF_vars(ReaderStep)
    /\ WF_vars(ArecordKilled)

\* ====================================================== Typer, punctuation
\* Part 6 (specification SpecTyper): Typer.Type and Typer.Undo over the X11
\* typer, and processPunctuation called alone.  A string is a sequence of
\* characters, a character a one-letter string; "U+1F600" stands for the one
\* character of that code point.

Upper == <<"A", "B", "C", "D", "E", "F", "G", "H", "I", "J", "K", "L", "M",
           "N", "O", "P", "Q", "R", "S", "T", "U", "V", "W", "X", "Y", "Z">>
Lower == <<"a", "b", "c", "d", "e", "f", "g", "h", "i", "j", "k", "l", "m",
           "n", "o", "p", "q", "r", "s", "t", "u", "v", "w", "x", "y", "z">>
Punct == <<<<".", 46>>, <<",", 44>>, <<"?", 63>>, <<"!", 33>>, <<":", 58>>,
           <<";", 59>>, <<"(", 40>>, <<")", 41>>, <<"-", 45>>, <<" ", 32>>,
           <<"\n", 10>>, <<"\t", 9>>>>

\* The code point of a character
CodePoint(c) ==
    IF \E i \in 1..26 : Lower[i] = c
    THEN 96 + (CHOOSE i \in 1..26 : Lower[i] = c)
    ELSE IF \E i \in 1..26 : Upper[i] = c
    THEN 64 + (CHOOSE i \in 1..26 : Upper[i] = c)
    ELSE IF \E i \in 1..Len(Punct) : Punct[i][1] = c
    THEN Punct[CHOOSE i \in 1..Len(Punct) : Punct[i][1] = c][2]
    ELSE 128512

\* strings.ToLower
ToLowerChar(c) ==
    IF \E i \in 1..26 : Upper[i] = c
    THEN Lower[CHOOSE i \in 1..26 : Upper[i] = c]
    ELSE c

ToLower(w) == [i \in 1..Len(w) |-> ToLowerChar(w[i])]

\* unicode.IsSpace
IsSpace(c) == c \in {" ", "\n", "\t"}

\* strings.TrimSpace(w) == ""
IsBlank(w) == \A i \in 1..Len(w) : IsSpace(w[i])

\* strings.Fields: word is the word being read, acc the words read
RECURSIVE FieldsFrom(_, _, _, _)
FieldsFrom(text, i, word, acc) ==
    IF i > Len(text)
    THEN IF word = <<>> THEN acc ELSE Append(acc, word)
    ELSE IF IsSpace(text[i])
    THEN FieldsFrom(text, i + 1, <<>>,
                    IF word = <<>> THEN acc ELSE Append(acc, word))
    ELSE FieldsFrom(text, i + 1, Append(word, text[i]), acc)

Fields(text) == FieldsFrom(text, 1, <<>>, <<>>)

\* var punctuationMap: pairs of spoken phrase and replacement
punctuationMap ==
    {
      <<<<"p", "e", "r", "i", "o", "d">>,
        <<".">>>>,
      <<<<"c", "o", "m", "m", "a">>,
        <<",">>>>,
      <<<<"q", "u", "e", "s", "t", "i", "o", "n", " ", "m", "a", "r", "k">>,
        <<"?">>>>,
      <<<<"e", "x", "c", "l", "a", "m", "a", "t", "i", "o", "n", " ", "m", "a", "r", "k">>,
        <<"!">>>>,
      <<<<"e", "x", "c", "l", "a", "m", "a", "t", "i", "o", "n", " ", "p", "o", "i", "n", "t">>,
        <<"!">>>>,
      <<<<"c", "o", "l", "o", "n">>,
        <<":">>>>,
      <<<<"s", "e", "m", "i", "c", "o", "l", "o", "n">>,
        <<";">>>>,
      <<<<"n", "e", "w", " ", "l", "i", "n", "e">>,
        <<"\n">>>>,
      <<<<"n", "e", "w", " ", "p", "a", "r", "a", "g", "r", "a", "p", "h">>,
        <<"\n", "\n">>>>,
      <<<<"o", "p", "e", "n", " ", "p", "a", "r", "e", "n", "t", "h", "e", "s", "i", "s">>,
        <<"(">>>>,
      <<<<"c", "l", "o", "s", "e", " ", "p", "a", "r", "e", "n", "t", "h", "e", "s", "i", "s">>,
        <<")">>>>,
      <<<<"d", "a", "s", "h">>,
        <<"-">>>>,
      <<<<"h", "y", "p", "h", "e", "n">>,
        <<"-">>>>,
      <<<<"e", "l", "l", "i", "p", "s", "i", "s">>,
        <<".", ".", ".">>>>
    }

HasPunct(k) == \E e \in punctuationMap : e[1] = k
PunctOf(k) == (CHOOSE e \in punctuationMap : e[1] = k)[2]

\* The first loop of processPunctuation: from words[i] on, toks is result so far
RECURSIVE Replace(_, _, _)
Replace(words, i, toks) ==
    IF i > Len(words)
    THEN toks
    ELSE LET twoWord == ToLower(words[i] \o <<" ">> \o words[i + 1])
             oneWord == ToLower(words[i])
         IN IF i + 1 <= Len(words) /\ HasPunct(twoWord)
            THEN Replace(words, i + 2, Append(toks, PunctOf(twoWord)))
            ELSE IF HasPunct(oneWord)
            THEN Replace(words, i + 1, Append(toks, PunctOf(oneWord)))
            ELSE Replace(words, i + 1, Append(toks, words[i]))

\* The second loop of processPunctuation (strings.Builder)
RECURSIVE Build(_, _, _)
Build(toks, i, built) ==
    IF i > Len(toks)
    THEN built
    ELSE LET sp == IF i > 1 /\ ~IsBlank(toks[i - 1]) /\ ~IsBlank(toks[i])
                   THEN <<" ">>
                   ELSE <<>>
         IN Build(toks, i + 1, built \o sp \o toks[i])

\* processPunctuation of the X11 typer
processPunctuation(text) == Build(Replace(Fields(text), 1, <<>>), 1, <<>>)

\* strings.Join(result, " ")
RECURSIVE Join(_, _, _)
Join(toks, i, built) ==
    IF i > Len(toks)
    THEN built
    ELSE Join(toks, i + 1,
              built \o (IF i > 1 THEN <<" ">> ELSE <<>>) \o toks[i])

\* processPunctuation of internal/typing/typer.go (the xdotool typer)
processPunctuationJoin(text) == Join(Replace(Fields(text), 1, <<>>), 1, <<>>)

clipboardThreshold == 50

\* x11Typer.keysymInfo finds the keysym in the keyboard mapping
keysymInfo(keysym) == keysym \in keymap

\* unicode.IsUpper, for the characters of the model
IsUpper(r) == r \in 65..90

\* x11Typer.typeRune: FALSE if the character cannot be typed
typeRune(c) ==
    LET r == CodePoint(c)
    IN IF r > 65535
       THEN FALSE
       ELSE \/ keysymInfo(r)
            \/ IsUpper(r) /\ keysymInfo(r + 32)

\* x11Typer.typeString: the number of characters that reach the target
typeString(text) == Cardinality({i \in 1..Len(text) : typeRune(text[i])})

\* ------------------------------------------------------------------ inputs
\* Calls of Type and Undo in one run.
MaxTyperOps == 3

\* Words in an argument of processPunctuation.
MaxWords == 3

Repeat(c, n) == [i \in 1..n |-> c]

\* Arguments of Type
TypeInputs ==
    { <<>>,
      <<"a">>,
      <<"a", "b">>,
      <<"A", "b">>,
      <<"a", "U+1F600">>,
      <<"a", " ", "n", "e", "w", " ", "l", "i", "n", "e", " ", "b">>,
      Repeat("a", clipboardThreshold - 1),
      Repeat("a", clipboardThreshold) }

\* Keyboard mappings: printable ASCII, and the same without capitals
Keymaps == { 32..126, (32..126) \ (65..90) }

Vocabulary ==
    {
      <<"h", "i">>,
      <<"P", "e", "r", "i", "o", "d">>,
      <<"n", "e", "w">>,
      <<"L", "I", "N", "E">>,
      <<"p", "a", "r", "a", "g", "r", "a", "p", "h">>,
      <<"q", "u", "e", "s", "t", "i", "o", "n">>,
      <<"m", "a", "r", "k">>
    }

Separators == { <<" ">>, <<" ", "\t", " ">> }

RECURSIVE JoinWords(_, _)
JoinWords(ws, sep) ==
    IF ws = <<>>
    THEN <<>>
    ELSE IF Len(ws) = 1
    THEN ws[1]
    ELSE ws[1] \o sep \o JoinWords(Tail(ws), sep)

\* Arguments of processPunctuation: up to MaxWords words of the vocabulary
\* with one of the separators between them and, possibly, around them
PunctInputs ==
    UNION { { JoinWords(ws, sep) : ws \in [1..n -> Vocabulary] }
            \cup { sep \o JoinWords(ws, sep) \o sep : ws \in [1..n -> Vocabulary] }
            : <<n, sep>> \in (0..MaxWords) \X Separators }

\* The variables outside part 6.
outsideTyp == <<vadAll, flacVars, hkVars, appVars, recVars, restVars>>

InitTyper ==
    /\ VadIdle
    /\ FlacIdle
    /\ HotkeyIdle
    /\ AppIdle
    /\ RecorderIdle
    /\ RestIdle
    /\ EnablePunctuation \in BOOLEAN
    /\ keymap \in Keymaps
    /\ lastRuneCount = 0
    /\ x11 = "unset"
    /\ typErr = "nil"
    /\ lastOp = "none"
    /\ inserted = 0
    /\ sentBS = 0
    /\ nTyperOps = 0
    /\ ppVer = "none"
    /\ ppIn = <<>>
    /\ ppOut = <<>>

\* Typer.init: once.Do(newX11Typer); c is what the first call obtains
TyperInit(c) == IF x11 = "unset" THEN c ELSE x11

\* Typer.Type(text); pasted: the target asked for the clipboard in time
Type ==
    /\ ppVer = "none"
    /\ nTyperOps < MaxTyperOps
    /\ \E text \in TypeInputs, c \in {"ok", "nil"}, pasted \in BOOLEAN :
          LET t == IF EnablePunctuation THEN processPunctuation(text)
                   ELSE text
          IN /\ lastRuneCount' = Len(t)
             /\ x11' = TyperInit(c)
             /\ IF x11' = "nil"
                THEN /\ typErr' = "errNoX11"
                     /\ inserted' = 0
                ELSE IF Len(t) >= clipboardThreshold
                THEN /\ typErr' = "nil"
                     /\ inserted' = IF pasted THEN Len(t) ELSE 0
                ELSE /\ typErr' = "nil"
                     /\ inserted' = typeString(t)
    /\ lastOp' = "type"
    /\ nTyperOps' = nTyperOps + 1
    /\ UNCHANGED <<EnablePunctuation, keymap, sentBS, ppVer, ppIn, ppOut,
                   outsideTyp>>

\* Typer.Undo
Undo ==
    /\ ppVer = "none"
    /\ nTyperOps < MaxTyperOps
    /\ IF lastRuneCount = 0
       THEN /\ typErr' = "nil"
            /\ sentBS' = 0
            /\ UNCHANGED <<lastRuneCount, x11>>
       ELSE \E c \in {"ok", "nil"} :
               /\ lastRuneCount' = 0
               /\ x11' = TyperInit(c)
               /\ IF x11' = "nil"
                  THEN /\ typErr' = "errNoX11"
                       /\ sentBS' = 0
                  ELSE /\ typErr' = "nil"
                       /\ sentBS' = lastRuneCount
    /\ lastOp' = "undo"
    /\ nTyperOps' = nTyperOps + 1
    /\ UNCHANGED <<EnablePunctuation, keymap, inserted, ppVer, ppIn, ppOut,
                   outsideTyp>>

\* processPunctuation(text) of the X11 typer, called alone
CallProcessPunctuation ==
    /\ ppVer = "none"
    /\ nTyperOps = 0
    /\ \E text \in PunctInputs :
          /\ ppIn' = text
          /\ ppOut' = processPunctuation(text)
    /\ ppVer' = "x11"
    /\ UNCHANGED <<EnablePunctuation, lastRuneCount, x11, keymap, typErr,
                   lastOp, inserted, sentBS, nTyperOps, outsideTyp>>

\* processPunctuation(text) of typer.go, called alone
CallProcessPunctuationJoin ==
    /\ ppVer = "none"
    /\ nTyperOps = 0
    /\ \E text \in PunctInputs :
          /\ ppIn' = text
          /\ ppOut' = processPunctuationJoin(text)
    /\ ppVer' = "xdotool"
    /\ UNCHANGED <<EnablePunctuation, lastRuneCount, x11, keymap, typErr,
                   lastOp, inserted, sentBS, nTyperOps, outsideTyp>>

NextTyper ==
    \/ Type
    \/ Undo
    \/ CallProcessPunctuation
    \/ CallProcessPunctuationJoin

SpecTyper == InitTyper /\ [][NextTyper]_vars

\* ============================================================ config.Load
\* Part 7 (specification SpecLoad): config.Load over the file config.json.
\* A field of the file is the set of its value, empty if the file does not
\* have the field.  Sensitivity is kept in tenths.

\* The variables outside part 7.
outsideLoad == <<vadAll, flacVars, hkVars, appVars, recVars, typVars, rmsVars,
                 sesVars>>

FileSilenceChunks == {{}, {-3}, {0}, {1}, {2}, {12}}
FileSensitivityX10 == {{}, {-10}, {0}, {1}, {4}, {5}, {6}, {25}}
FileTimeout == {{}, {-1}, {0}, {2}, {4}, {5}, {6}, {60}}
FileLanguage == {{}, {"de-DE"}}

\* What os.ReadFile and json.Unmarshal may meet
ConfigFiles ==
    { [kind |-> k] : k \in {"missing", "unreadable", "badjson"} }
    \cup [kind : {"json"}, silence_chunks : FileSilenceChunks,
          sensitivity : FileSensitivityX10, timeout : FileTimeout,
          language : FileLanguage]

InitLoad ==
    /\ VadIdle
    /\ FlacIdle
    /\ HotkeyIdle
    /\ AppIdle
    /\ RecorderIdle
    /\ TyperIdle
    /\ RmsIdle
    /\ SessionIdle
    /\ cfgFile \in ConfigFiles
    /\ loadPc = "idle"
    /\ loadCfg = Default
    /\ loadNil = TRUE
    /\ loadErr = "nil"

\* json.Unmarshal of one field: the value of the file if it has one
Field(f, old) == IF f = {} THEN old ELSE CHOOSE v \in f : TRUE

\* json.Unmarshal(data, cfg)
Unmarshal(file, cfg) ==
    [Language |-> Field(file.language, cfg.Language),
     Timeout |-> Field(file.timeout, cfg.Timeout),
     SilenceChunks |-> Field(file.silence_chunks, cfg.SilenceChunks),
     SensitivityX10 |-> Field(file.sensitivity, cfg.SensitivityX10)]

\* "if cfg.SilenceChunks < 1" that lets 0 pass.
ClampSilenceChunks_ZeroKept(v) == IF v < 0 THEN 12 ELSE v

\* if cfg.SilenceChunks < 1 { cfg.SilenceChunks = 12 }
ClampSilenceChunks(v) == IF v < 1 THEN 12 ELSE v

\* if cfg.Sensitivity < 0.5 { cfg.Sensitivity = 2.5 }
ClampSensitivity(v) == IF v < 5 THEN 25 ELSE v

\* if cfg.Timeout < 5 { cfg.Timeout = 60 }
ClampTimeout(v) == IF v < 5 THEN 60 ELSE v

\* config.Load
Load ==
    /\ loadPc = "idle"
    /\ cfgFile.kind # "none"
    /\ loadPc' = "returned"
    /\ CASE cfgFile.kind = "missing" ->
              /\ loadCfg' = Default
              /\ loadNil' = FALSE
              /\ loadErr' = "nil"
         [] cfgFile.kind \in {"unreadable", "badjson"} ->
              /\ loadNil' = TRUE
              /\ loadErr' = "err"
              /\ UNCHANGED loadCfg
         [] cfgFile.kind = "json" ->
              LET cfg == Unmarshal(cfgFile, Default)
              IN /\ loadCfg' =
                       [cfg EXCEPT
                          !.SilenceChunks = ClampSilenceChunks(@),
                          !.SensitivityX10 = ClampSensitivity(@),
                          !.Timeout = ClampTimeout(@)]
                 /\ loadNil' = FALSE
                 /\ loadErr' = "nil"
    /\ UNCHANGED <<cfgFile, outsideLoad>>

NextLoad == Load

SpecLoad == InitLoad /\ [][NextLoad]_vars

\* ================================================================ calcRMS
\* Part 8 (specification SpecRms): calcRMS called alone on chunks of n equal
\* samples v, with or without an odd trailing byte, and on chunks of
\* different samples.

\* Samples in a chunk of equal samples.
MaxRmsSamples == 3

\* The variables outside part 8.
outsideRms == <<vadAll, flacVars, hkVars, appVars, recVars, typVars, loadVars,
                sesVars>>

RmsValues == {-32768, -1000, -150, -1, 0, 1, 5, 150, 1000, 32767}

\* v as two bytes, little endian (binary.LittleEndian.PutUint16(uint16(v)))
S16LE(v) == LET u == IF v < 0 THEN v + 65536 ELSE v IN <<u % 256, u \div 256>>

RECURSIVE ConstPcm(_, _)
ConstPcm(v, n) == IF n = 0 THEN <<>> ELSE S16LE(v) \o ConstPcm(v, n - 1)

\* The sum of the squares stays below 2^31
SumFits(v, n) == n = 0 \/ v * v <= 2147483647 \div n

\* The arguments: equal samples, the same with a trailing byte 0xAB, and
\* chunks of two different samples
RmsInputs ==
    UNION { { [pcm |-> ConstPcm(v, n) \o odd, v |-> v, n |-> n, const |-> TRUE]
              : odd \in {<<>>, <<171>>} }
            : <<v, n>> \in {x \in RmsValues \X (0..MaxRmsSamples) :
                               SumFits(x[1], x[2])} }
    \cup { [pcm |-> S16LE(a) \o S16LE(b), v |-> 0, n |-> 2, const |-> FALSE]
           : <<a, b>> \in {<<5, 1000>>, <<-1000, 150>>, <<0, 1>>} }

InitRms ==
    /\ VadIdle
    /\ FlacIdle
    /\ HotkeyIdle
    /\ AppIdle
    /\ RecorderIdle
    /\ TyperIdle
    /\ LoadIdle
    /\ SessionIdle
    /\ rmsArg \in RmsInputs
    /\ rmsPc = "start"
    /\ rmsRet = 0

\* A call of calcRMS(pcm)
CallCalcRMS ==
    /\ rmsPc = "start"
    /\ rmsRet' = calcRMS(rmsArg.pcm)
    /\ rmsPc' = "done"
    /\ UNCHANGED <<rmsArg, outsideRms>>

NextRms == CallCalcRMS

SpecRms == InitRms /\ [][NextRms]_vars

\* ------------------------------------------------------------------------
\* Part 9: sessions one after the other. runDictation from the test of
\* isListening to its deferred function (part_012 l.214-276), Recognize on
\* the free-API path (part_004 l.81-99, l.223-272) and the popup the tray
\* drives (internal/ui/tray.go l.84-120, internal/ui/popup.go l.119-149).
\* At most one call of runDictation is past the test of isListening at a
\* time, so the sessions follow each other; stopDictation, the deadline and
\* the delayed hides of earlier sessions run beside them.

\* Sessions begun in a run of the model.
MaxSessions == 2

\* The variables outside part 9.
outsideSession == <<vadAll, flacVars, hkVars, dict, rCancel, pendingToggles,
                    pendingToggleStops, toggleLog, pttHeld, pendingPttStops,
                    nAppPresses, recVars, typVars, loadVars, rmsVars>>

recogVars == <<recPc, pcmEmpty, recText, recErr>>
sesHist == <<onProcessingCalls, apiCalls, doneAtReturn, typeCalls>>
popVars == <<popState, popMapped, hideTimers>>

InitSession ==
    /\ VadIdle
    /\ FlacIdle
    /\ HotkeyIdle
    /\ AppIdle
    /\ RecorderIdle
    /\ TyperIdle
    /\ LoadIdle
    /\ RmsIdle
    /\ SessionIdle

\* X11Popup.Show(st): MapWindow, p.state = st
Show(st) ==
    /\ popMapped' = TRUE
    /\ popState' = st

\* X11Popup.SetState(st): p.state = st, the window is left as it is
SetState(st) ==
    /\ popState' = st
    /\ UNCHANGED popMapped

\* X11Popup.Hide: p.state = stHidden, UnmapWindow
Hide ==
    /\ popState' = "stHidden"
    /\ popMapped' = FALSE

\* Tray.SetError: Show(stError) and "go func() { Sleep(3 s); t.SetIdle() }()"
SetError ==
    /\ Show("stError")
    /\ hideTimers' = hideTimers \cup {nSessions}

\* Tray.SetDone: the done flash and "go func() { Sleep(2 s); t.SetIdle() }()".
\* X11Popup.ShowDone is not among the sources; it sets the state and may or
\* may not map the window again.
SetDone ==
    /\ popState' = "stDone"
    /\ popMapped' \in {popMapped, TRUE}
    /\ hideTimers' = hideTimers \cup {nSessions}

\* runDictation up to a.mu.Unlock(), called while no session is listening
SessionBegin(skip) ==
    /\ runPc = "idle"
    /\ nSessions < MaxSessions
    /\ ~isListening
    /\ isListening' = TRUE
    /\ cancelDicta' = nSessions + 1
    /\ nSessions' = nSessions + 1
    /\ sesCtx' = "live"
    /\ SkipVAD' = skip
    /\ runPc' = "setListening"
    /\ recPc' = "none"
    /\ pcmEmpty' = TRUE
    /\ recText' = ""
    /\ recErr' = "nil"
    /\ onProcessingCalls' = 0
    /\ apiCalls' = 0
    /\ doneAtReturn' = FALSE
    /\ typeCalls' = 0
    /\ UNCHANGED <<exits, popVars, outsideSession>>

\* a.tray.SetListening()
TraySetListening ==
    /\ runPc = "setListening"
    /\ Show("stListening")
    /\ runPc' = "start"
    /\ UNCHANGED <<isListening, cancelDicta, nSessions, sesCtx, SkipVAD,
                   recogVars, sesHist, exits, hideTimers, outsideSession>>

\* a.recorder.Start(ctx) succeeds; rec.Recognize(ctx, audioCh) is entered
StartRecording ==
    /\ runPc = "start"
    /\ runPc' = "recognize"
    /\ recPc' = "buffer"
    /\ UNCHANGED <<isListening, cancelDicta, nSessions, sesCtx, SkipVAD,
                   pcmEmpty, recText, recErr, sesHist, exits, popVars,
                   outsideSession>>

\* a.recorder.Start(ctx) fails: SetError("Mic error: ..."), return
StartRecordingFails ==
    /\ runPc = "start"
    /\ SetError
    /\ exits' = Append(exits, "micError")
    /\ runPc' = "deferred"
    /\ UNCHANGED <<isListening, cancelDicta, nSessions, sesCtx, SkipVAD,
                   recogVars, sesHist, outsideSession>>

\* bufferAll or bufferWithVAD returns because the channel was closed: what
\* was buffered (nothing before onset), nil error
BufferChannelClosed ==
    /\ recPc = "buffer"
    /\ pcmEmpty' \in BOOLEAN
    /\ recErr' = "nil"
    /\ recPc' = "onProcessing"
    /\ UNCHANGED <<isListening, cancelDicta, nSessions, runPc, sesCtx,
                   SkipVAD, recText, sesHist, exits, popVars, outsideSession>>

\* bufferWithVAD returns at the end of speech: a non-empty buffer, nil error
BufferSilence ==
    /\ recPc = "buffer"
    /\ ~SkipVAD
    /\ pcmEmpty' = FALSE
    /\ recErr' = "nil"
    /\ recPc' = "onProcessing"
    /\ UNCHANGED <<isListening, cancelDicta, nSessions, runPc, sesCtx,
                   SkipVAD, recText, sesHist, exits, popVars, outsideSession>>

\* case <-ctx.Done(): bufferAll returns buf, bufferWithVAD returns result
\* and ctx.Err()
BufferCtxDone ==
    /\ recPc = "buffer"
    /\ sesCtx # "live"
    /\ pcmEmpty' \in BOOLEAN
    /\ recErr' = IF SkipVAD THEN "nil" ELSE "ctx"
    /\ recPc' = "onProcessing"
    /\ UNCHANGED <<isListening, cancelDicta, nSessions, runPc, sesCtx,
                   SkipVAD, recText, sesHist, exits, popVars, outsideSession>>

\* if r.OnProcessing != nil { r.OnProcessing() }: a.tray.SetProcessing()
OnProcessingCall ==
    /\ recPc = "onProcessing"
    /\ onProcessingCalls' = onProcessingCalls + 1
    /\ SetState("stProcessing")
    /\ recPc' = "lenCheck"
    /\ UNCHANGED <<isListening, cancelDicta, nSessions, runPc, sesCtx,
                   SkipVAD, pcmEmpty, recText, recErr, apiCalls,
                   doneAtReturn, typeCalls, exits, hideTimers,
                   outsideSession>>

\* if len(pcm) == 0 { return "", err }; return r.postFreeAPI(ctx, ...)
LenCheck ==
    /\ recPc = "lenCheck"
    /\ IF pcmEmpty
       THEN /\ recPc' = "returned"
            /\ doneAtReturn' = (sesCtx # "live")
            /\ UNCHANGED apiCalls
       ELSE /\ recPc' = "post"
            /\ apiCalls' = apiCalls + 1
            /\ UNCHANGED doneAtReturn
    /\ UNCHANGED <<isListening, cancelDicta, nSessions, runPc, sesCtx,
                   SkipVAD, pcmEmpty, recText, recErr, onProcessingCalls,
                   typeCalls, exits, popVars, outsideSession>>

\* http.DefaultClient.Do(req) with a context that is done: an error
PostCtxDone ==
    /\ recPc = "post"
    /\ sesCtx # "live"
    /\ recErr' = "sending"
    /\ recPc' = "returned"
    /\ doneAtReturn' = TRUE
    /\ UNCHANGED <<isListening, cancelDicta, nSessions, runPc, sesCtx,
                   SkipVAD, pcmEmpty, recText, onProcessingCalls, apiCalls,
                   typeCalls, exits, popVars, outsideSession>>

\* Do fails or the status is not 200: an error
PostFails ==
    /\ recPc = "post"
    /\ sesCtx = "live"
    /\ recErr' = "sending"
    /\ recPc' = "returned"
    /\ doneAtReturn' = FALSE
    /\ UNCHANGED <<isListening, cancelDicta, nSessions, runPc, sesCtx,
                   SkipVAD, pcmEmpty, recText, onProcessingCalls, apiCalls,
                   typeCalls, exits, popVars, outsideSession>>

\* Do returns a response with status 200
PostResponse ==
    /\ recPc = "post"
    /\ sesCtx = "live"
    /\ recPc' = "scan"
    /\ UNCHANGED <<isListening, cancelDicta, nSessions, runPc, sesCtx,
                   SkipVAD, pcmEmpty, recText, recErr, sesHist, exits,
                   popVars, outsideSession>>

\* scanner.Scan() gives a line whose result has an alternative
ScanResult ==
    /\ recPc = "scan"
    /\ recText = ""
    /\ recText' = "hello"
    /\ UNCHANGED <<isListening, cancelDicta, nSessions, runPc, sesCtx,
                   SkipVAD, recPc, pcmEmpty, recErr, sesHist, exits,
                   popVars, outsideSession>>

\* scanner.Scan() gives false, at the end of the body or on a read error:
\* return transcript, nil
ScanEnd ==
    /\ recPc = "scan"
    /\ recErr' = "nil"
    /\ recPc' = "returned"
    /\ doneAtReturn' = (sesCtx # "live")
    /\ UNCHANGED <<isListening, cancelDicta, nSessions, runPc, sesCtx,
                   SkipVAD, pcmEmpty, recText, onProcessingCalls, apiCalls,
                   typeCalls, exits, popVars, outsideSession>>

\* Recognize returned to runDictation
Returned == runPc = "recognize" /\ recPc = "returned"

\* a.recorder.Stop(); if err != nil { switch ctx.Err() ... return }
RecognizeFailed ==
    /\ Returned
    /\ recErr # "nil"
    /\ CASE sesCtx = "deadline" ->
              SetError /\ exits' = Append(exits, "timeout")
         [] sesCtx = "canceled" ->
              /\ Hide
              /\ exits' = Append(exits, "canceled")
              /\ UNCHANGED hideTimers
         [] OTHER ->
              SetError /\ exits' = Append(exits, "recognizeError")
    /\ runPc' = "deferred"
    /\ recPc' = "none"
    /\ UNCHANGED <<isListening, cancelDicta, nSessions, sesCtx, SkipVAD,
                   pcmEmpty, recText, recErr, sesHist, outsideSession>>

\* if text == "" { SetError("Could not understand speech"); return }
EmptyText ==
    /\ Returned
    /\ recErr = "nil"
    /\ recText = ""
    /\ SetError
    /\ exits' = Append(exits, "emptyText")
    /\ runPc' = "deferred"
    /\ recPc' = "none"
    /\ UNCHANGED <<isListening, cancelDicta, nSessions, sesCtx, SkipVAD,
                   pcmEmpty, recText, recErr, sesHist, outsideSession>>

\* typer.Type(text) fails: SetError("Type error: ..."), return
TypeFails ==
    /\ Returned
    /\ recErr = "nil"
    /\ recText # ""
    /\ typeCalls' = typeCalls + 1
    /\ SetError
    /\ exits' = Append(exits, "typeError")
    /\ runPc' = "deferred"
    /\ recPc' = "none"
    /\ UNCHANGED <<isListening, cancelDicta, nSessions, sesCtx, SkipVAD,
                   pcmEmpty, recText, recErr, onProcessingCalls, apiCalls,
                   doneAtReturn, outsideSession>>

\* typer.Type(text) succeeds: a.tray.SetDone(text)
TypeOk ==
    /\ Returned
    /\ recErr = "nil"
    /\ recText # ""
    /\ typeCalls' = typeCalls + 1
    /\ SetDone
    /\ exits' = Append(exits, "success")
    /\ runPc' = "deferred"
    /\ recPc' = "none"
    /\ UNCHANGED <<isListening, cancelDicta, nSessions, sesCtx, SkipVAD,
                   pcmEmpty, recText, recErr, onProcessingCalls, apiCalls,
                   doneAtReturn, outsideSession>>

\* The deferred function that leaves isListening set.
DeferredReturn_KeepsListening ==
    /\ runPc = "deferred"
    /\ sesCtx' = IF sesCtx = "live" THEN "canceled" ELSE sesCtx
    /\ cancelDicta' = 0
    /\ runPc' = "idle"
    /\ UNCHANGED <<isListening, nSessions, SkipVAD, recogVars, sesHist, exits,
                   popVars, outsideSession>>

\* The deferred function: cancel(), isListening = false, cancelDicta = nil
DeferredReturn ==
    /\ runPc = "deferred"
    /\ sesCtx' = IF sesCtx = "live" THEN "canceled" ELSE sesCtx
    /\ isListening' = FALSE
    /\ cancelDicta' = 0
    /\ runPc' = "idle"
    /\ UNCHANGED <<nSessions, SkipVAD, recogVars, sesHist, exits, popVars,
                   outsideSession>>

\* stopDictation: cancel := a.cancelDicta; if cancel != nil { cancel() }
StopDictation ==
    /\ cancelDicta # 0
    /\ sesCtx = "live"
    /\ sesCtx' = "canceled"
    /\ UNCHANGED <<isListening, cancelDicta, nSessions, runPc, SkipVAD,
                   recogVars, sesHist, exits, popVars, outsideSession>>

\* context.WithTimeout: the deadline of the session passes
DeadlineExceeded ==
    /\ sesCtx = "live"
    /\ sesCtx' = "deadline"
    /\ UNCHANGED <<isListening, cancelDicta, nSessions, runPc, SkipVAD,
                   recogVars, sesHist, exits, popVars, outsideSession>>

\* The goroutine of SetDone or SetError wakes up: t.SetIdle(), popup.Hide()
DelayedHide(n) ==
    /\ n \in hideTimers
    /\ hideTimers' = hideTimers \ {n}
    /\ Hide
    /\ UNCHANGED <<isListening, cancelDicta, nSessions, runPc, sesCtx,
                   SkipVAD, recogVars, sesHist, exits, outsideSession>>

\* The steps of runDictation that wait for nothing but a context that is
\* done
RunStep ==
    \/ TraySetListening
    \/ StartRecording
    \/ StartRecordingFails
    \/ BufferCtxDone
    \/ OnProcessingCall
    \/ LenCheck
    \/ PostCtxDone
    \/ (ScanEnd /\ sesCtx # "live")
    \/ RecognizeFailed
    \/ EmptyText
    \/ TypeFails
    \/ TypeOk
    \/ DeferredReturn

NextSession ==
    \/ \E skip \in BOOLEAN : SessionBegin(skip)
    \/ TraySetListening
    \/ StartRecording
    \/ StartRecordingFails
    \/ BufferChannelClosed
    \/ BufferSilence
    \/ BufferCtxDone
    \/ OnProcessingCall
    \/ LenCheck
    \/ PostCtxDone
    \/ PostFails
    \/ PostResponse
    \/ ScanResult
    \/ ScanEnd
    \/ RecognizeFailed
    \/ EmptyText
    \/ TypeFails
    \/ TypeOk
    \/ DeferredReturn
    \/ StopDictation
    \/ DeadlineExceeded
    \/ \E n \in 1..MaxSessions : DelayedHide(n)

SpecSession == InitSession /\ [][NextSession]_vars

\* The sessions with the scheduler running every goroutine that can take a
\* step and the deadline of context.WithTimeout passing.
SpecSessionLive ==
    /\ InitSession
    /\ [][NextSession]_vars
    /\ WF_vars(RunStep)
    /\ WF_vars(DeadlineExceeded)

\* ================================================================= claims
\* Position in the progression calibrating -> waitingSpeech -> inSpeech ->
\* returned.
PhaseRank == IF pc = "returned" THEN 3 ELSE cur

\* RMS of a received chunk as a real number times Scale.
RmsOf(chunk) == calcRMS(chunk.pcm)

\* Arrival number of the oldest chunk the pre-roll retains when onset is
\* triggered by chunk number w.
WindowFirst(w) ==
    IF w - (preRollLen - 1) > 4 THEN w - (preRollLen - 1) ELSE 5

RECURSIVE TrailingQuiet(_)
\* Number of chunks at the end of a chunk sequence whose RMS is at or below
\* the threshold.
TrailingQuiet(chunks) ==
    IF chunks = <<>> THEN 0
    ELSE IF RmsOf(chunks[Len(chunks)]) > threshold THEN 0
    ELSE 1 + TrailingQuiet(SubSeq(chunks, 1, Len(chunks) - 1))

\* A step of bufferWithVAD that receives a chunk.
IsRecvStep == nRecv' = nRecv + 1

\* C1: the phase only advances along calibrating -> waitingSpeech ->
\* inSpeech -> returned; it never moves back, inSpeech is entered only from
\* waitingSpeech and waitingSpeech only from calibrating.
C1_PhaseOrder ==
    [][ /\ PhaseRank' >= PhaseRank
        /\ cur' >= cur
        /\ (cur' = inSpeech /\ cur # inSpeech => cur = waitingSpeech /\ pc = "running")
        /\ (cur' = waitingSpeech /\ cur # waitingSpeech => cur = calibrating /\ pc = "running")
      ]_vars

\* C1 witness: a run went through every phase and returned at silence-end.
C1_Witness == pc = "returned" /\ retPath = "silence" /\ cur = inSpeech

\* C2: no chunk received while calibrating (arrival numbers 1..4)
\* contributes bytes to the buffer: the buffer is the concatenation of
\* chunks that all arrived after the fourth.
C2_CalibrationExcluded ==
    /\ result = Flatten(out)
    /\ \A i \in 1..Len(out) : out[i].seq > 4

\* C2 witness: a non-empty buffer was returned after calibration chunks that
\* were not all the same.
C2_Witness ==
    /\ pc = "returned"
    /\ result # <<>>
    /\ calibSum \notin {4 * RmsOf([pcm |-> c]) : c \in ChunkAlphabet}

\* C3: the buffer is empty while the phase is calibrating or waitingSpeech;
\* a stream that closes before onset (in particular one shorter than the
\* calibration window) gives an empty buffer and a nil error.
C3_EmptyBeforeOnset ==
    /\ (cur \in {calibrating, waitingSpeech} => result = <<>>)
    /\ (pc = "returned" /\ retPath = "closed" /\ cur # inSpeech
          => result = <<>> /\ retErr = "nil")
    /\ (pc = "returned" /\ retPath = "closed" /\ nRecv < 4
          => cur = calibrating /\ result = <<>> /\ retErr = "nil")

\* C3 witness: the stream closed in waitingSpeech with chunks held in the
\* pre-roll.
C3_Witness ==
    /\ pc = "returned"
    /\ retPath = "closed"
    /\ cur = waitingSpeech
    /\ Len(preRoll) = preRollLen

\* C4: in waitingSpeech the consecutive-loud counter is 1 exactly when the
\* last waitingSpeech chunk was loud (RMS > threshold) and 0 otherwise; a
\* received chunk triggers onset exactly when it is loud and the immediately
\* preceding waitingSpeech chunk was loud; a non-loud chunk resets the
\* counter to zero and does not trigger onset.
C4_OnsetDebounce ==
    /\ [](cur = waitingSpeech =>
            /\ speechCount \in {0, 1}
            /\ (speechCount = 1 <=>
                  preRoll # <<>> /\ RmsOf(preRoll[Len(preRoll)]) > threshold))
    /\ [][ IsRecvStep /\ cur = waitingSpeech =>
             LET loud == RmsOf(Head(audioCh)) > threshold
                 prevLoud == preRoll # <<>> /\ RmsOf(preRoll[Len(preRoll)]) > threshold
             IN  /\ (cur' = inSpeech <=> loud /\ prevLoud)
                 /\ (~loud => speechCount' = 0 /\ cur' = waitingSpeech)
         ]_vars

\* C4 witness: a single loud chunk was followed by a quiet one, with no onset.
C4_Witness ==
    /\ cur = waitingSpeech
    /\ Len(preRoll) >= 2
    /\ RmsOf(preRoll[Len(preRoll) - 1]) > threshold
    /\ RmsOf(preRoll[Len(preRoll)]) <= threshold
    /\ speechCount = 0

\* C5: after onset the buffer begins with the retained pre-roll window (at
\* most preRollLen chunks, in arrival order, ending with the two triggering
\* chunks) and continues in arrival order; no earlier waitingSpeech chunk
\* is in it.
C5_PreRollFirst ==
    cur = inSpeech =>
        LET first == WindowFirst(onsetAt)
            k == onsetAt - first + 1
        IN  /\ 2 <= k /\ k <= preRollLen
            /\ Len(out) >= k
            /\ \A i \in 1..Len(out) : out[i].seq = first + i - 1
            /\ RmsOf(out[k - 1]) > threshold
            /\ RmsOf(out[k]) > threshold
            /\ result = Flatten(out)

\* C5 witness: onset came after more waitingSpeech chunks than the pre-roll
\* holds, so the oldest were trimmed.
C5_Witness ==
    /\ cur = inSpeech
    /\ onsetAt > 4 + preRollLen
    /\ out[1].seq = onsetAt - 3
    /\ RmsOf(out[1]) <= threshold

\* C6: in inSpeech a loud chunk resets the consecutive-quiet counter to zero
\* and does not end the phrase; the counter is the number of quiet chunks
\* at the end of the buffer, so the phrase ends only after a full
\* silence-end count of consecutive quiet chunks.
C6_SilenceReset ==
    /\ [](cur = inSpeech =>
            /\ silCount = TrailingQuiet(out)
            /\ (retPath = "silence" => silCount = silenceEndChunks))
    /\ [][ IsRecvStep /\ cur = inSpeech /\ RmsOf(Head(audioCh)) > threshold =>
             silCount' = 0 /\ pc' = "running"
         ]_vars

\* C6 witness: after onset a quiet chunk, then a loud one, then a full quiet
\* run that ended the phrase.
C6_Witness ==
    /\ retPath = "silence"
    /\ \E i \in 1..Len(out) :
          /\ out[i].seq > onsetAt
          /\ RmsOf(out[i]) <= threshold
          /\ i + 1 + silenceEndChunks = Len(out)
          /\ RmsOf(out[i + 1]) > threshold

\* C7: bufferWithVAD returns through the silence-end path exactly when the
\* configured number of consecutive quiet chunks has been received in
\* inSpeech; the buffer is then the pre-roll window followed by every chunk
\* received in inSpeech, in arrival order, the trailing quiet chunks
\* included, and the error is nil.
C7_SilenceEnd ==
    /\ (pc = "running" /\ cur = inSpeech => silCount < silenceEndChunks)
    /\ (retPath = "silence" =>
          LET first == WindowFirst(onsetAt)
              n == Len(out)
          IN  /\ pc = "returned" /\ cur = inSpeech /\ retErr = "nil"
              /\ silCount = silenceEndChunks
              /\ n = (onsetAt - first + 1) + (nRecv - onsetAt)
              /\ \A i \in 1..n : out[i].seq = first + i - 1
              /\ \A i \in (n - silenceEndChunks + 1)..n :
                    out[i].seq > onsetAt /\ RmsOf(out[i]) <= threshold
              /\ result = Flatten(out))

\* C7 witness: a phrase ended by three quiet chunks after at least one
\* loud chunk in inSpeech.
C7_Witness ==
    /\ retPath = "silence"
    /\ SilenceChunks = 3
    /\ nRecv - onsetAt > 3

\* C8 (as claimed): once the context is done bufferWithVAD receives no
\* further chunk, and its next step returns the buffer with ctx.Err().
C8_CancelStopsConsuming ==
    [][ ctxErr # "nil" /\ pc = "running" =>
          /\ nRecv' = nRecv
          /\ result' = result
          /\ (pc' = "returned" => retErr' = ctxErr)
      ]_vars

\* C9: the returned error is non-nil exactly when bufferWithVAD returned
\* through the ctx.Done() branch; a closed stream (in any phase) and
\* silence-end give a nil error, and no-speech shows only as an empty
\* buffer.
C9_ErrorOnlyOnCancel ==
    pc = "returned" =>
        /\ (retErr # "nil" <=> retPath = "cancel")
        /\ (retPath = "cancel" => retErr = ctxErr /\ ctxErr \in CtxErrors)
        /\ (retPath \in {"closed", "silence"} => retErr = "nil")
        /\ (retPath = "closed" /\ cur # inSpeech => result = <<>> /\ retErr = "nil")

\* C9 witness: the stream closed mid-speech after the context was done, and
\* the return through the closed-channel branch still carried a nil error.
C9_Witness ==
    /\ pc = "returned"
    /\ retPath = "closed"
    /\ cur = inSpeech
    /\ ctxErr # "nil"
    /\ retErr = "nil"

\* C10: after calibration the threshold is max(mean ambient RMS x
\* sensitivity, 150) (exactly 150 for ambient 5 and sensitivity 2.5), it
\* never changes afterwards, and a chunk with RMS at or below 150 never
\* triggers onset.
C10_ThresholdFloor ==
    /\ [](cur # calibrating =>
            LET raw == calibSum * thresholdMul
                floor == 150 * Scale * 4 * 2
            IN  /\ threshold * 4 * 2 = IF raw > floor THEN raw ELSE floor
                /\ (calibSum = 4 * 5 * Scale /\ thresholdMul = 5
                      => threshold = 150 * Scale))
    /\ [][ /\ (cur # calibrating => threshold' = threshold)
           /\ (IsRecvStep /\ cur = waitingSpeech /\ cur' = inSpeech
                 => RmsOf(Head(audioCh)) > 150 * Scale)
         ]_vars

\* C10 witness: ambient 5 with sensitivity 2.5 left the threshold at 150,
\* and two chunks of RMS 150 did not trigger onset.
C10_Witness ==
    /\ cur = waitingSpeech
    /\ calibSum = 4 * 5 * Scale
    /\ thresholdMul = 5
    /\ threshold = 150 * Scale
    /\ Len(preRoll) >= 2
    /\ RmsOf(preRoll[Len(preRoll)]) = 150 * Scale
    /\ RmsOf(preRoll[Len(preRoll) - 1]) = 150 * Scale

\* C11: a chunk whose RMS equals the threshold counts as quiet in both
\* phases: in waitingSpeech it resets the consecutive-loud counter and does
\* not trigger onset, in inSpeech it increments the consecutive-quiet
\* counter.
C11_EqualIsQuiet ==
    [][ IsRecvStep /\ RmsOf(Head(audioCh)) = threshold =>
          /\ (cur = waitingSpeech => speechCount' = 0 /\ cur' = waitingSpeech)
          /\ (cur = inSpeech => silCount' = silCount + 1)
      ]_vars

\* C11 witness: in inSpeech the chunk received last had an RMS equal to the
\* threshold and was counted as quiet, after one such chunk in waitingSpeech
\* had been kept in the pre-roll.
C11_Witness ==
    /\ cur = inSpeech
    /\ silCount >= 1
    /\ Len(out) >= 4
    /\ out[Len(out)].seq > onsetAt
    /\ RmsOf(out[Len(out)]) = threshold
    /\ out[1].seq < onsetAt - 1
    /\ RmsOf(out[1]) = threshold

\* ------------------------------------------------------------ part 2 helpers
\* ceil(n / flacBlockSize)
CeilFrames(n) == (n + flacBlockSize - 1) \div flacBlockSize

\* The buffer without its odd trailing byte.
EvenPrefix(p) == SubSeq(p, 1, 2 * (Len(p) \div 2))

RECURSIVE EncodeFrames(_, _, _)
\* Frames k, k+1, ... of p, each of flacBlockSize samples but the last.
EncodeFrames(p, k, total) ==
    IF k * flacBlockSize >= total THEN <<>>
    ELSE flacEncodeFrame(k, total, FrameSlice(p, k))
         \o EncodeFrames(p, k + 1, total)

\* The encoding of a buffer of whole samples.
EncodingOf(p) ==
    <<102, 76, 97, 67>> \o <<128, 0, 0, 34>> \o flacStreamInfo(Len(p) \div 2)
    \o EncodeFrames(p, 0, Len(p) \div 2)

FlacTerminated == fn = "pcmToFLACNative" /\ flacPc \in {"done", "panic"}

\* C12: for every PCM buffer, one with an odd trailing byte included,
\* pcmToFLACNative completes without failing and returns the encoding of the
\* buffer without its odd trailing byte.  (Violated: a last frame slice of odd
\* length makes flacEncodeFrame index past the slice.)
C12_OddByteDropped ==
    FlacTerminated =>
        /\ flacPc = "done"
        /\ flacOut = EncodingOf(EvenPrefix(flacPcm))

RECURSIVE ConcatSrc(_, _)
\* The input bytes of frames 1..k, in order.
ConcatSrc(fs, k) ==
    IF k = 0 THEN <<>> ELSE ConcatSrc(fs, k - 1) \o fs[k].src

\* Samples held by the i-th frame written.
FrameSamples(i) == Len(frames[i].src) \div 2

\* C13: pcmToFLACNative splits n samples into ceil(n / 4096) frames numbered
\* 0, 1, 2, ... in order, each of 4096 samples except possibly the last,
\* which holds the remainder, and the frame payloads together are the whole
\* input in sample order.  (Violated when the call panics, see C12: the
\* frames are then not produced.)
C13_Segmentation ==
    FlacTerminated =>
        /\ flacPc = "done"
        /\ Len(frames) = CeilFrames(nSamplesTotal)
        /\ \A i \in 1..Len(frames) :
              /\ frames[i].num = i - 1
              /\ i < Len(frames) => FrameSamples(i) = flacBlockSize
              /\ i = Len(frames) =>
                    FrameSamples(i) = nSamplesTotal - (i - 1) * flacBlockSize
        /\ ConcatSrc(frames, Len(frames)) = EvenPrefix(flacPcm)

\* The same, and the result of C12, on the calls that return.
SegmentationWhenReturned ==
    (fn = "pcmToFLACNative" /\ flacPc = "done") =>
        /\ flacOut = EncodingOf(EvenPrefix(flacPcm))
        /\ Len(frames) = CeilFrames(nSamplesTotal)
        /\ ConcatSrc(frames, Len(frames)) = EvenPrefix(flacPcm)

\* Whole frames in the input, and the samples left after them.
FullFrames == nSamplesTotal \div flacBlockSize
Remainder == nSamplesTotal % flacBlockSize

\* The byte of the i-th frame written that holds the block-size code in its
\* high four bits.
BsByte(i) == frames[i].bytes[3]
\* The two bytes after the one-byte frame number of the i-th frame written.
SizeField(i) == <<frames[i].bytes[6], frames[i].bytes[7]>>

IsFinalFrame(i) == i = CeilFrames(nSamplesTotal)

\* C15: a frame carries block-size code 0x7 and, after the frame number, the
\* two bytes of sampleCount - 1 in big-endian, if and only if it is the final
\* frame and holds fewer than 4096 samples; every other frame, a final frame
\* of exactly 4096 samples included, carries code 0xC and no size bytes (the
\* header is then sync, code byte, zero byte, frame number, CRC-8: 6 bytes
\* before the subframe tag).
C15_PartialIffFinalShort ==
    fn = "pcmToFLACNative" =>
        \A i \in 1..Len(frames) :
            LET n == FrameSamples(i)
                b == frames[i].bytes
            IN  IF IsFinalFrame(i) /\ n < flacBlockSize
                THEN /\ b[3] = 112
                     /\ b[5] = i - 1
                     /\ <<b[6], b[7]>> = <<(n - 1) \div 256, (n - 1) % 256>>
                     /\ Len(b) = 8 + 1 + 2 * n + 2
                ELSE /\ b[3] = 192
                     /\ b[5] = i - 1
                     /\ Len(b) = 6 + 1 + 2 * n + 2

\* A final frame of exactly 4096 samples, after a first full frame.
C15_Witness ==
    /\ fn = "pcmToFLACNative"
    /\ flacPc = "done"
    /\ nSamplesTotal = 2 * flacBlockSize
    /\ Len(frames) = 2
    /\ IsFinalFrame(2)
    /\ frames[1].bytes[3] = 192
    /\ frames[2].bytes[3] = 192

RECURSIVE NaiveBits8(_, _)
\* naiveCRC8: the eight shifts for one byte (poly 0x07, no reflection).
NaiveBits8(crc, j) ==
    IF j = 0 THEN crc
    ELSE NaiveBits8(IF (crc \div 128) % 2 = 1
                    THEN Xor8((crc * 2) % 256, 7)
                    ELSE (crc * 2) % 256,
                    j - 1)

RECURSIVE NaiveBits16(_, _)
\* naiveCRC16: the eight shifts for one byte (poly 0x8005, no reflection).
NaiveBits16(crc, j) ==
    IF j = 0 THEN crc
    ELSE NaiveBits16(IF (crc \div 32768) % 2 = 1
                     THEN Xor16((crc * 2) % 65536, 32773)
                     ELSE (crc * 2) % 65536,
                     j - 1)

RECURSIVE NaiveFold8(_, _, _, _)
\* naiveCRC8 over d[lo..hi], in order, starting from crc (the range is halved
\* only to keep the evaluation shallow).
NaiveFold8(d, lo, hi, crc) ==
    IF lo > hi THEN crc
    ELSE IF lo = hi THEN NaiveBits8(Xor8(crc, d[lo]), 8)
    ELSE LET mid == (lo + hi) \div 2
             left == NaiveFold8(d, lo, mid, crc)
         IN  IF left >= 0 THEN NaiveFold8(d, mid + 1, hi, left) ELSE left

RECURSIVE NaiveFold16(_, _, _, _)
NaiveFold16(d, lo, hi, crc) ==
    IF lo > hi THEN crc
    ELSE IF lo = hi THEN NaiveBits16(Xor16(crc, d[lo] * 256), 8)
    ELSE LET mid == (lo + hi) \div 2
             left == NaiveFold16(d, lo, mid, crc)
         IN  IF left >= 0 THEN NaiveFold16(d, mid + 1, hi, left) ELSE left

\* The bit-by-bit CRC-8 and CRC-16, init 0.
naiveCRC8(d) == NaiveFold8(d, 1, Len(d), 0)
naiveCRC16(d) == NaiveFold16(d, 1, Len(d), 0)

\* Header bytes before the CRC-8 byte of a frame whose frame number takes one
\* byte: 5, and 2 more with the explicit size.
HeaderLen(b) == IF b[3] = 112 THEN 7 ELSE 5

\* C16: in every frame, the byte ending the header is the bit-by-bit CRC-8 of
\* the header bytes before it, and the last two bytes are, big-endian, the
\* bit-by-bit CRC-16 of all frame bytes before them; flacCRC8 and flacCRC16
\* equal the bit-by-bit CRCs on every byte sequence and are 0 on the empty
\* one.
C16_CrcMatchesBitwise ==
    /\ fn = "pcmToFLACNative" =>
          \A i \in 1..Len(frames) :
              LET b == frames[i].bytes
                  h == HeaderLen(b)
                  c == naiveCRC16(SubSeq(b, 1, Len(b) - 2))
              IN  /\ b[h + 1] = naiveCRC8(SubSeq(b, 1, h))
                  /\ b[Len(b) - 1] = c \div 256
                  /\ b[Len(b)] = c % 256
    /\ (fn = "flacCRC" /\ flacPc = "done") =>
          /\ ret = <<naiveCRC8(data), naiveCRC16(data)>>
          /\ data = <<>> => ret = <<0, 0>>

\* The CRCs stored in a full frame of non-zero samples.
C16_Witness ==
    /\ fn = "pcmToFLACNative"
    /\ flacPc = "done"
    /\ Len(frames) >= 1
    /\ FrameSamples(1) = flacBlockSize
    /\ frames[1].src[1] # frames[1].src[2]
    /\ frames[1].bytes[6] = naiveCRC8(SubSeq(frames[1].bytes, 1, 5))
    /\ frames[1].bytes[6] # 0
    /\ frames[1].bytes[Len(frames[1].bytes)] # 0

\* The sample bytes of the subframe of the i-th frame written: what lies
\* between the tag byte and the CRC-16.
Payload(i) ==
    LET b == frames[i].bytes
    IN  SubSeq(b, HeaderLen(b) + 3, Len(b) - 2)

\* Each byte pair of q exchanged.
SwapBack(q) ==
    [j \in 1..Len(q) |-> IF j % 2 = 1 THEN q[j + 1] ELSE q[j - 1]]

\* C17: the subframe of each frame is the tag byte 0x02 followed by every
\* input sample of that frame with its two bytes exchanged (low byte first in
\* the input, high byte first in the output), and exchanging each byte pair of
\* the payload again gives exactly the input samples of the frame.
C17_SamplesByteSwapped ==
    fn = "pcmToFLACNative" =>
        \A i \in 1..Len(frames) :
            LET b == frames[i].bytes
                q == Payload(i)
                off == (i - 1) * flacBlockSize * 2
            IN  /\ b[HeaderLen(b) + 2] = 2
                /\ Len(q) = 2 * FrameSamples(i)
                /\ \A k \in 1..FrameSamples(i) :
                      /\ q[2 * k - 1] = flacPcm[off + 2 * k]
                      /\ q[2 * k] = flacPcm[off + 2 * k - 1]
                /\ SwapBack(q) = frames[i].src

\* A second frame whose first sample has two different bytes.
C17_Witness ==
    /\ fn = "pcmToFLACNative"
    /\ flacPc = "done"
    /\ Len(frames) >= 2
    /\ frames[2].src[1] # frames[2].src[2]
    /\ Payload(2)[1] = frames[2].src[2]
    /\ Payload(2)[2] = frames[2].src[1]

\* b is a continuation byte, 10xxxxxx.
IsCont(b) == b >= 128 /\ b <= 191

RECURSIVE ContValue(_, _)
\* The value of the six-bit groups of bytes 2..k of bs.
ContValue(bs, k) ==
    IF k <= 1 THEN 0 ELSE ContValue(bs, k - 1) * 64 + (bs[k] - 128)

\* The value of a byte sequence that follows the UTF-8 pattern in one to five
\* bytes (lead 0xxxxxxx, 110xxxxx, 1110xxxx, 11110xxx or 111110xx, then
\* continuation bytes), and -1 for any other sequence.
DecodeUTF8(bs) ==
    LET n == Len(bs)
        lead == IF n = 0 THEN -1 ELSE bs[1]
        conts == \A k \in 2..n : IsCont(bs[k])
    IN  IF n = 1 /\ lead < 128 THEN lead
        ELSE IF n = 2 /\ lead >= 192 /\ lead <= 223 /\ conts
            THEN (lead - 192) * 64 + ContValue(bs, 2)
        ELSE IF n = 3 /\ lead >= 224 /\ lead <= 239 /\ conts
            THEN (lead - 224) * 4096 + ContValue(bs, 3)
        ELSE IF n = 4 /\ lead >= 240 /\ lead <= 247 /\ conts
            THEN (lead - 240) * 262144 + ContValue(bs, 4)
        ELSE IF n = 5 /\ lead >= 248 /\ lead <= 251 /\ conts
            THEN (lead - 248) * 16777216 + ContValue(bs, 5)
        ELSE -1

\* 2^26: the values five bytes of the pattern can hold are those below it.
FiveByteLimit == 64 * 1024 * 1024

UTF8Returned == fn = "flacUTF8Int" /\ flacPc = "done"

\* C18 as stated: every value below 0x80 is encoded as one byte equal to the
\* value, and every value is encoded in at most 5 bytes of the UTF-8 pattern
\* from which the value can be recovered.
C18_RecoverableEveryValue ==
    UTF8Returned =>
        /\ uv < 128 => ret = <<uv>>
        /\ Len(ret) <= 5
        /\ DecodeUTF8(ret) = uv

\* C18, amended: every value below 0x80 is encoded as one byte equal to the
\* value; every value below 2^26 is encoded in at most 5 bytes of the UTF-8
\* pattern from which the value can be recovered; a value of 2^26 or more is
\* encoded in 5 bytes whose continuation bytes hold its low 24 bits and whose
\* lead byte is 0xF8 or-ed with bits 24..31, which does not hold the value; 0
\* gives 00, 0x80 gives C2 80, 0x10000 gives four bytes beginning F0.
C18_RecoverableBelow26Bits ==
    UTF8Returned =>
        /\ uv < 128 => ret = <<uv>>
        /\ uv < FiveByteLimit => Len(ret) <= 5 /\ DecodeUTF8(ret) = uv
        /\ uv >= FiveByteLimit =>
              /\ Len(ret) = 5
              /\ ret[1] >= 248
              /\ \A k \in 2..5 : IsCont(ret[k])
              /\ ContValue(ret, 5) = uv % 16777216
        /\ uv = 0 => ret = <<0>>
        /\ uv = 128 => ret = <<194, 128>>
        /\ uv = 65536 => Len(ret) = 4 /\ ret[1] = 240

\* The largest value five bytes hold.
C18_Witness ==
    /\ UTF8Returned
    /\ uv = FiveByteLimit - 1
    /\ ret = <<251, 191, 191, 191, 191>>
    /\ DecodeUTF8(ret) = uv

\* C19: encoding empty PCM yields exactly 42 bytes, the magic "fLaC", the
\* 4-byte header of a last metadata block of type STREAMINFO and length 34,
\* and the 34-byte STREAMINFO payload, and no frame.
C19_EmptyIsHeaderOnly ==
    (fn = "pcmToFLACNative" /\ flacPc = "done" /\ Len(flacPcm) = 0) =>
        /\ Len(flacOut) = 42
        /\ SubSeq(flacOut, 1, 4) = <<102, 76, 97, 67>>
        /\ SubSeq(flacOut, 5, 8) = <<128, 0, 0, 34>>
        /\ SubSeq(flacOut, 9, 42) =
              <<16, 0, 16, 0, 0, 0, 0, 0, 0, 0, 3, 232, 0, 240, 0, 0, 0, 0,
                0, 0, 0, 0, 0, 0, 0, 0, 0, 0, 0, 0, 0, 0, 0, 0>>
        /\ frames = <<>>
        /\ frameNum = 0

C19_Witness ==
    /\ fn = "pcmToFLACNative"
    /\ flacPc = "done"
    /\ flacPcm = <<>>
    /\ Len(flacOut) = 42
    /\ frames = <<>>

\* The STREAMINFO payload in the output: bytes 9..42.
StreamInfoOut == SubSeq(flacOut, 9, 42)

\* The fields of a STREAMINFO payload si, unpacked.
SiMinBlock(si) == si[1] * 256 + si[2]
SiMaxBlock(si) == si[3] * 256 + si[4]
SiSampleRate(si) == si[11] * 4096 + si[12] * 16 + si[13] \div 16
SiChannelsM1(si) == (si[13] \div 2) % 8
SiBpsM1(si) == (si[13] % 2) * 16 + si[14] \div 16
SiTotalHigh(si) == si[14] % 16
SiTotalLow(si) == ((si[15] * 256 + si[16]) * 256 + si[17]) * 256 + si[18]

\* The sample count the i-th frame written declares in its header.
DeclaredSamples(i) ==
    IF BsByte(i) = 192 THEN flacBlockSize
    ELSE SizeField(i)[1] * 256 + SizeField(i)[2] + 1

RECURSIVE SumDeclared(_)
SumDeclared(k) == IF k = 0 THEN 0 ELSE SumDeclared(k - 1) + DeclaredSamples(k)

StreamInfoFields ==
    LET si == StreamInfoOut
    IN  /\ Len(si) = streamInfoLen
        /\ SiMinBlock(si) = 4096
        /\ SiMaxBlock(si) = 4096
        /\ SiSampleRate(si) = 16000
        /\ SiChannelsM1(si) = 0
        /\ SiBpsM1(si) = 15
        /\ \A k \in 19..34 : si[k] = 0
        /\ SiTotalHigh(si) = 0
        /\ SiTotalLow(si) = Len(flacPcm) \div 2

\* C20: for every input, the STREAMINFO block has min and max block size
\* 4096, sample rate 16000, channels-1 = 0, bits-per-sample-1 = 15, sixteen
\* zero fingerprint bytes and a total-sample field equal to len(pcm)/2, and
\* that total is the sum of the sample counts declared by the frames that
\* follow.  (Violated when the call panics, see C12: the frames that declare
\* the samples are not produced.)
C20_StreamInfoTotals ==
    FlacTerminated =>
        /\ flacPc = "done"
        /\ StreamInfoFields
        /\ SumDeclared(Len(frames)) = SiTotalLow(StreamInfoOut)

\* The same on the calls that return.
StreamInfoWhenReturned ==
    (fn = "pcmToFLACNative" /\ flacPc = "done") =>
        /\ StreamInfoFields
        /\ SumDeclared(Len(frames)) = SiTotalLow(StreamInfoOut)

\* ================================================== claims C21 and following
\* The state of bufferWithVAD that a later step reads, as one value.
VadState ==
    [phase |-> cur, count |-> calibCount, sum |-> calibSum, thr |-> threshold,
     speech |-> speechCount, sil |-> silCount, roll |-> preRoll,
     res |-> result, done |-> pc = "returned"]

\* The value of VadState after a step.
VadStateNext ==
    [phase |-> cur', count |-> calibCount', sum |-> calibSum',
     thr |-> threshold', speech |-> speechCount', sil |-> silCount',
     roll |-> preRoll', res |-> result', done |-> pc' = "returned"]

\* The last n elements of a sequence.
LastN(q, n) == IF Len(q) <= n THEN q ELSE SubSeq(q, Len(q) - n + 1, Len(q))

\* What a state s of bufferWithVAD becomes on the chunk c, under the
\* configuration of the run: a function of s, c and the configuration alone.
AfterChunk(s, c) ==
    LET rms == RmsOf(c)
    IN  CASE s.phase = calibrating ->
                IF s.count + 1 < calibChunks
                THEN [s EXCEPT !.count = @ + 1, !.sum = @ + rms]
                ELSE [s EXCEPT !.count = @ + 1, !.sum = @ + rms,
                               !.thr = Threshold(s.sum + rms, s.count + 1),
                               !.phase = waitingSpeech]
          [] s.phase = waitingSpeech ->
                LET roll == LastN(Append(s.roll, c), preRollLen)
                IN  IF rms <= s.thr
                    THEN [s EXCEPT !.roll = roll, !.speech = 0]
                    ELSE IF s.speech + 1 < minSpeechChunks
                    THEN [s EXCEPT !.roll = roll, !.speech = @ + 1]
                    ELSE [s EXCEPT !.roll = <<>>, !.speech = 0,
                                   !.phase = inSpeech,
                                   !.res = @ \o Flatten(roll)]
          [] s.phase = inSpeech ->
                IF rms > s.thr
                THEN [s EXCEPT !.res = @ \o c.pcm, !.sil = 0]
                ELSE [s EXCEPT !.res = @ \o c.pcm, !.sil = @ + 1,
                               !.done = (s.sil + 1 >= silenceChunks)]

SilenceRunComplete ==
    cur = inSpeech /\ TrailingQuiet(out) >= silenceChunks

\* C22: bufferWithVAD has no cutoff of its own.  It returns only on a full
\* silence-end run after onset, on the closed and drained channel, or on
\* cancellation, so a run whose channel stays open and whose stream never
\* completes a silence-end run (or never reaches onset) returns through
\* cancellation only; and once the channel is closed or the context is done
\* it eventually returns.
C22_ReturnsOnlyOnEvent ==
    /\ [](pc = "returned" =>
            \/ retPath = "silence" /\ SilenceRunComplete
            \/ retPath = "closed" /\ chClosed /\ audioCh = <<>>
            \/ retPath = "cancel" /\ ctxErr # "nil")
    /\ ((chClosed \/ ctxErr # "nil") ~> pc = "returned")

\* Every chunk of the run was received, the channel is open, the context is
\* not done, and bufferWithVAD is still waiting.
C22_Witness ==
    /\ pc = "running"
    /\ nRecv = MaxChunks
    /\ ~chClosed
    /\ ctxErr = "nil"
    /\ audioCh = <<>>

\* C26: in push-to-talk mode, while the key is held and auto-repeat delivers
\* KeyRelease+KeyPress pairs, onPress is invoked once, at the physical press,
\* and onRelease is not invoked; after the physical release onRelease is
\* invoked once.  So onPress is never invoked more often than the key was
\* physically pressed, nor onRelease more often than it was physically
\* released.  (Violated: a release goroutine started by an earlier pair clears
\* pendingRelease between the KeyRelease and the KeyPress of a later pair.)
C26_PttOncePerPhysical ==
    hkMode = "ptt" =>
        /\ onPressCalls <= physPresses
        /\ onReleaseCalls <= physReleases

\* C27: in toggle mode onPress is invoked once per physical key press:
\* KeyRelease+KeyPress pairs generated while the key is held do not invoke it
\* again.  (Violated: every KeyRelease clears pressed, so the KeyPress of an
\* auto-repeat pair counts as a new press.)
C27_ToggleOncePerPhysical ==
    hkMode = "toggle" => onPressCalls <= physPresses

\* C23: pressing the toggle hotkey again while a dictation started by an
\* earlier press is still in progress cancels that dictation and does not
\* start another one: no toggleDictation that finds such a dictation in
\* progress executes "go a.startDictation()".  (Violated: the goroutine of the
\* earlier press has not set isListening yet when the later press reads it.)
C23_SecondPressStartsNothing ==
    \A i \in 1..Len(toggleLog) :
        toggleLog[i].inProgress => ~toggleLog[i].started

\* C24: in push-to-talk mode a key press that starts a session, followed by
\* the key release, leads to the recording being stopped by that release:
\* once the key is up and the release callback has run, the recording of a
\* push-to-talk session that is in Recognize is stopped.  (Violated: the
\* callback runs recorder.Stop before Recorder.Start has stored r.cancel.)
C24_ReleaseStopsRecording ==
    \A g \in Goroutines :
        (/\ dict[g].kind = "ptt"
         /\ dict[g].pc = "recognize"
         /\ ~pttHeld
         /\ pendingPttStops = 0) => RecDone(dict[g])

\* C25: a push-to-talk press or release never stops, shortens or otherwise
\* alters a dictation session started by the toggle hotkey: the steps of the
\* push-to-talk hotkey (press, release, release callback) leave the record
\* of every toggle session as it is.  (Violated: the release callback is
\* recorder.Stop on the shared Recorder.)
C25_PttLeavesToggleAlone ==
    [][(\/ pttHeld' # pttHeld
        \/ pendingPttStops' # pendingPttStops)
       => \A g \in Goroutines :
              dict[g].kind = "toggle" => dict'[g] = dict[g]]_vars

\* The chunks 1..n in order
UpTo(n) == [i \in 1..n |-> i]

C29_UndoMatchesInserted ==
    [][(lastOp' = "undo" /\ nTyperOps' # nTyperOps)
       => sentBS' = IF lastOp = "type" THEN inserted ELSE 0]_vars

\* The words of a text: its maximal runs of characters that are not spaces
WordStarts(text) ==
    {i \in 1..Len(text) :
        ~IsSpace(text[i]) /\ (i = 1 \/ IsSpace(text[i - 1]))}

WordEnd(text, i) ==
    CHOOSE j \in i..Len(text) :
        /\ \A k \in i..j : ~IsSpace(text[k])
        /\ j = Len(text) \/ IsSpace(text[j + 1])

WordsOf(text) ==
    LET starts == WordStarts(text)
        nth(k) == CHOOSE i \in starts :
                      Cardinality({j \in starts : j < i}) = k - 1
    IN [k \in 1..Cardinality(starts) |->
            SubSeq(text, nth(k), WordEnd(text, nth(k)))]

\* Left to right: a two-word phrase first, then a one-word phrase, else the
\* word itself
RECURSIVE ExpectedTokens(_)
ExpectedTokens(ws) ==
    IF ws = <<>>
    THEN <<>>
    ELSE IF Len(ws) >= 2 /\ HasPunct(ToLower(ws[1] \o <<" ">> \o ws[2]))
    THEN <<PunctOf(ToLower(ws[1] \o <<" ">> \o ws[2]))>>
         \o ExpectedTokens(SubSeq(ws, 3, Len(ws)))
    ELSE IF HasPunct(ToLower(ws[1]))
    THEN <<PunctOf(ToLower(ws[1]))>> \o ExpectedTokens(Tail(ws))
    ELSE <<ws[1]>> \o ExpectedTokens(Tail(ws))

IsNewlineToken(t) == t # <<>> /\ \A i \in 1..Len(t) : t[i] = "\n"

\* One space between adjacent tokens, none next to a newline token
RECURSIVE ExpectedText(_)
ExpectedText(toks) ==
    IF toks = <<>>
    THEN <<>>
    ELSE IF Len(toks) = 1
    THEN toks[1]
    ELSE toks[1]
         \o (IF IsNewlineToken(toks[1]) \/ IsNewlineToken(toks[2])
             THEN <<>>
             ELSE <<" ">>)
         \o ExpectedText(Tail(toks))

\* C30: processPunctuation scans the words left to right, replaces a
\* two-word spoken phrase in preference to a one-word match at the same word,
\* matches case-insensitively, leaves other words unchanged and joins
\* adjacent output tokens with one space, except that no space is put next to
\* a newline token; empty input gives empty output.  Stated of both
\* processPunctuation functions of the sources.  (Violated by the one of
\* typer.go, which joins every pair of tokens with a space.)
C30_PunctuationOutput ==
    ppVer # "none" => ppOut = ExpectedText(ExpectedTokens(WordsOf(ppIn)))

\* The processPunctuation of the X11 typer does what C30 says.
PunctuationOfX11Typer ==
    ppVer = "x11" => ppOut = ExpectedText(ExpectedTokens(WordsOf(ppIn)))

\* ===== claims C31 and following

\* C31: the effective silence-end count is SilenceChunks when it is > 0 and
\* 12 otherwise, the effective sensitivity is Sensitivity when it is > 0 and
\* 2.5 (5 halves) otherwise; so in every configuration the VAD runs with a
\* silence-end count >= 1 and a positive multiplier, and a phrase that ends on
\* silence ends with at least one quiet chunk, and with at least the
\* silence-end count of them.
C31_EffectiveConfig ==
    /\ silenceEndChunks = IF SilenceChunks > 0 THEN SilenceChunks ELSE 12
    /\ thresholdMul = IF SensitivityX2 > 0 THEN SensitivityX2 ELSE 5
    /\ silenceEndChunks >= 1
    /\ thresholdMul > 0
    /\ retPath = "silence" =>
          /\ TrailingQuiet(out) >= 1
          /\ TrailingQuiet(out) >= silenceEndChunks

\* A phrase ended on its only quiet chunk, SilenceChunks 1 kept and a
\* negative Sensitivity replaced.
C31_Witness ==
    /\ retPath = "silence"
    /\ SilenceChunks = 1
    /\ SensitivityX2 = -1
    /\ TrailingQuiet(out) = 1

\* What a field of the file must have become: its value if it is at least
\* min, else the replacement d; the default d0 if the file has no such field.
Loaded(f, min, d, d0) ==
    IF f = {} THEN d0
    ELSE IF \E v \in f : v >= min THEN CHOOSE v \in f : TRUE ELSE d

C33_RmsOfConstant ==
    rmsPc = "done" =>
        /\ rmsRet >= 0
        /\ Len(rmsArg.pcm) <= 1 => rmsRet = 0
        /\ rmsArg.const =>
              rmsRet = IF rmsArg.n = 0 THEN 0
                       ELSE IF rmsArg.v < 0 THEN (0 - rmsArg.v) * Scale
                       ELSE rmsArg.v * Scale

\* Two samples of -1000 followed by an odd byte gave 1000.
C33_Witness ==
    /\ rmsPc = "done"
    /\ rmsArg.const
    /\ rmsArg.v = -1000
    /\ rmsArg.n = 2
    /\ Len(rmsArg.pcm) = 5
    /\ rmsRet = 1000 * Scale

\* The chunks of waitingSpeech received so far: every chunk after the
\* calibration window.
WaitingReceived == IF nRecv > calibChunks THEN nRecv - calibChunks ELSE 0

\* The pre-roll holds the chunks numbered nRecv - Len(preRoll) + 1 .. nRecv,
\* oldest first.
PreRollIsMostRecent ==
    \A i \in 1..Len(preRoll) : preRoll[i].seq = nRecv - Len(preRoll) + i

\* C34: at every iteration boundary the pre-roll holds at most preRollLen
\* (4) chunks; in waitingSpeech they are the most recent waitingSpeech
\* chunks, in arrival order, as many as have arrived up to that limit; the
\* pre-roll is empty during calibration and from onset on; and a chunk
\* appended to a full pre-roll evicts exactly the oldest one.
C34_PreRollBounded ==
    /\ [](/\ Len(preRoll) <= preRollLen
          /\ cur = waitingSpeech =>
                /\ PreRollIsMostRecent
                /\ Len(preRoll) = IF WaitingReceived < preRollLen
                                  THEN WaitingReceived ELSE preRollLen
          /\ cur \in {calibrating, inSpeech} => preRoll = <<>>)
    /\ [][(/\ cur = waitingSpeech
           /\ cur' = waitingSpeech
           /\ nRecv' = nRecv + 1
           /\ Len(preRoll) = preRollLen)
             => preRoll' = Append(Tail(preRoll), Head(audioCh))]_vars

\* C34 witness: still waiting for speech after more chunks than the pre-roll
\* holds, so the oldest ones were evicted.
C34_Witness ==
    /\ cur = waitingSpeech
    /\ pc = "running"
    /\ WaitingReceived = preRollLen + 2
    /\ Len(preRoll) = preRollLen
    /\ preRoll[1].seq = calibChunks + 3

\* The sessions: the calls of runDictation that set isListening and have not
\* run their deferred function.
ActiveSessions == {g \in Goroutines : dict[g].pc \in {"start", "recognize"}}

\* C35: at most one call of runDictation is between setting isListening and
\* its deferred reset, so at most one is starting the recorder or inside
\* Recognize; isListening is true exactly while there is one, and cancelDicta
\* is its cancel function; a call that finds isListening true returns having
\* touched neither the recorder nor the context, whatever the order of toggle
\* presses (hotkey or tray menu) and push-to-talk presses.
C35_OneSession ==
    /\ [](/\ Cardinality(ActiveSessions) <= 1
          /\ isListening <=> ActiveSessions # {}
          /\ \A g \in ActiveSessions : cancelDicta = g
          /\ \A g \in Goroutines :
                dict[g].pc = "skipped" =>
                    /\ dict[g].ctx = "none"
                    /\ ~dict[g].chOpen
                    /\ rCancel # g)
    /\ [][\A g \in Goroutines :
            (isListening /\ dict[g].pc = "spawned" /\ dict'[g].pc # "spawned")
                => /\ dict'[g] = [dict[g] EXCEPT !.pc = "skipped"]
                   /\ rCancel' = rCancel
                   /\ isListening'
                   /\ cancelDicta' = cancelDicta]_vars

\* C35 witness: a push-to-talk session is inside Recognize while a call made
\* by the toggle returned without starting, after an earlier session ended.
C35_Witness ==
    /\ \E g \in Goroutines : dict[g].kind = "ptt" /\ dict[g].pc = "recognize"
    /\ \E g \in Goroutines : dict[g].kind = "toggle" /\ dict[g].pc = "skipped"
    /\ \E g \in Goroutines : dict[g].pc = "done"

\* The return statements of runDictation after isListening was set.
ExitPaths == {"micError", "recognizeError", "timeout", "canceled",
              "emptyText", "typeError", "success"}

\* C36: every session that set isListening ends: isListening leads to not
\* isListening. The step that ends it, on whichever exit path, leaves
\* isListening false, cancelDicta nil and the session's context done
\* (cancelled, or past its deadline), and between sessions they stay so: a
\* call of runDictation made then starts a new session.
C36_SessionEnds ==
    /\ [](runPc = "idle" =>
            /\ ~isListening
            /\ cancelDicta = 0
            /\ sesCtx # "live"
            /\ Len(exits) = nSessions
            /\ nSessions < MaxSessions => ENABLED SessionBegin(FALSE))
    /\ [][(runPc # "idle" /\ runPc' = "idle") =>
            /\ isListening /\ ~isListening'
            /\ cancelDicta' = 0
            /\ sesCtx' \in {"canceled", "deadline"}
            /\ exits[nSessions] \in ExitPaths]_vars
    /\ (isListening ~> ~isListening)

\* C36 witness: a session that timed out has ended and a second one, begun
\* after it, has ended by typing its text.
C36_Witness ==
    /\ runPc = "idle"
    /\ nSessions = 2
    /\ exits = <<"timeout", "success">>
    /\ ~isListening

\* C37: a session whose context was cancelled or past its deadline when
\* Recognize returned types nothing; typer.Type is called only after
\* Recognize returned a nil error and a non-empty transcript.
C37_NoTextAfterCancel ==
    typeCalls > 0 =>
        /\ recErr = "nil"
        /\ recText # ""
        /\ ~doneAtReturn

\* typer.Type is called at most once in a session, and only after Recognize
\* returned a nil error and a non-empty transcript read from a response.
TypeOnlyAfterTranscript ==
    /\ typeCalls <= 1
    /\ typeCalls > 0 => recErr = "nil" /\ recText # "" /\ apiCalls = 1

\* C38: on the free-API path OnProcessing is called exactly once in a call
\* of Recognize, after the buffering returned, and only when a request to
\* the API follows: not when the buffer is empty.
C38_OnProcessingOnce ==
    /\ onProcessingCalls <= 1
    /\ recPc \in {"buffer", "onProcessing"} => onProcessingCalls = 0
    /\ recPc \in {"lenCheck", "post", "scan", "returned"} =>
            onProcessingCalls = 1
    /\ recPc = "returned" => onProcessingCalls = apiCalls

\* OnProcessing is called exactly once in a call of Recognize, after the
\* buffering returned and before the length of the buffer is tested.
OnProcessingAfterBuffering ==
    /\ onProcessingCalls <= 1
    /\ recPc \in {"buffer", "onProcessing"} => onProcessingCalls = 0
    /\ recPc \in {"lenCheck", "post", "scan", "returned"} =>
            onProcessingCalls = 1
    /\ apiCalls <= onProcessingCalls

\* The session is in the Listening or Processing state: SetListening was
\* called and none of SetDone, SetError and SetIdle yet.
ListeningOrProcessing == runPc \in {"start", "recognize"}

\* C39: while a session is in the Listening or Processing state the popup
\* is mapped and shows that state; the delayed hide of an earlier session's
\* SetDone or SetError does not hide it.
C39_PopupStaysShown ==
    ListeningOrProcessing =>
        /\ popMapped
        /\ popState \in {"stListening", "stProcessing"}

\* The popup of the first session, before which nothing scheduled a hide,
\* stays shown while the session is listening or processing.
FirstPopupStaysShown ==
    (ListeningOrProcessing /\ nSessions = 1) =>
        /\ popMapped
        /\ popState \in {"stListening", "stProcessing"}
        /\ hideTimers = {}
====
